---- MODULE Spec2Model ----
(***************************************************************************)
(* RevoFun: three browser mini-games (number guessing, rock-paper-scissors, *)
(* memory match) over a shared localStorage-backed profile/score utility.  *)
(*                                                                         *)
(* Every page is its own JavaScript realm: the shared utility script plus  *)
(* one game script.  The model therefore has one specification per page    *)
(* (SpecStore for the utility alone, SpecNG, SpecRPS, SpecMM for the game  *)
(* pages); the variables of the other pages stay at their initial values.  *)
(*                                                                         *)
(* Strings the code measures or trims (names, typed guesses) are sequences *)
(* of one-character strings.  Timestamps and elapsed seconds are inputs    *)
(* drawn from small sets.                                                  *)
(***************************************************************************)
EXTENDS Integers, Sequences, FiniteSets, TLC

VARIABLES
    \* shared utility script: module globals
    currentUser, gameScores,
    \* window.localStorage: the two records and whether the store is usable
    lsUser, lsScores, lsAvailable,
    \* mutating utility calls / finished games so far in this run (model bound)
    ops,
    \* what the last handler or utility call returned or threw
    lastCall,
    \* game pages: state every game script declares
    gameStarted, gameEnded,
    \* game pages: DOM state the scripts set (section and button visibility)
    nameSectionShown, controlsShown,
    \* history: saveGameScore calls, counter increments and games that
    \* reached their score-recording end, made by the page's handlers
    nSaves, nIncs, nCompleted,
    \* number guessing: script state, disabled flag of the guess input and
    \* button, and history of the game in progress
    secretNumber, attemptsLeft, inputDisabled, guessNo, script,
    \* pending setTimeout callbacks of the page, in the order they were set
    timers,
    \* rock-paper-scissors: script state, disabled flag of the choice buttons
    \* and history of the choices handled in this run and of the tied rounds
    \* played since the last startGame()
    playerScore, computerScore, currentRound, playerChoice, computerChoice,
    choicesDisabled, nChoices, nTies,
    \* memory match: script state, the classes of the grid's card elements,
    \* the visibility of the Start Game and New Game buttons and history of
    \* the cards turned face-up in this run
    cards, flippedCards, matchedPairs, moveCount,
    elFlipped, elMatched, elDisabled, startBtnShown, newBtnShown, nFlips

storeVars == <<currentUser, gameScores, lsUser, lsScores, lsAvailable>>
pageVars == <<gameStarted, gameEnded, nameSectionShown, controlsShown>>
histVars == <<nSaves, nIncs, nCompleted>>
ngVars == <<secretNumber, attemptsLeft, inputDisabled, guessNo, script>>
rpsVars == <<playerScore, computerScore, currentRound, playerChoice,
             computerChoice, choicesDisabled, nChoices, nTies>>
mmVars == <<cards, flippedCards, matchedPairs, moveCount,
            elFlipped, elMatched, elDisabled, startBtnShown, newBtnShown,
            nFlips>>
allGameVars == <<pageVars, histVars, ngVars, timers, rpsVars, mmVars>>

----------------------------------------------------------------------------
(* Bounds of the model *)

\* mutating utility calls explored from each initial state of SpecStore
MaxOps == 2

----------------------------------------------------------------------------
(* Small helpers *)

Min(a, b) == IF a < b THEN a ELSE b
Max(a, b) == IF a > b THEN a ELSE b

\* n copies of the character c
Rep(c, n) == [i \in 1..n |-> c]

RECURSIVE TrimLeft(_)
TrimLeft(s) == IF s # <<>> /\ Head(s) = " " THEN TrimLeft(Tail(s)) ELSE s

RECURSIVE TrimRight(_)
TrimRight(s) ==
    IF s # <<>> /\ s[Len(s)] = " " THEN TrimRight(SubSeq(s, 1, Len(s) - 1)) ELSE s

\* String.prototype.trim
Trim(s) == TrimRight(TrimLeft(s))

----------------------------------------------------------------------------
(* Shared utility script: profile and score map *)

\* JavaScript null
Null == [null |-> TRUE]

\* the game names the three pages pass to saveGameScore
GameNames == {"numberGuessing", "rockPaperScissors", "memoryGame"}

\* let gameScores = {}: a missing key and an empty list read the same
\* (gameScores[g] || []), so the map is total with <<>> for a missing key
EmptyScores == [g \in GameNames |-> <<>>]

\* player of an entry saved with no user set
Anonymous == <<"A", "n", "o", "n", "y", "m", "o", "u", "s">>

\* the leaderboard cap: slice(0, 10)
TopN == 10

\* name length limit of setCurrentUser
MaxNameLen == 50

\* localStorage.getItem of a key never written
NoItem == [text |-> "absent"]

\* a stored string that JSON.parse rejects
Corrupt == [text |-> "corrupt"]

JSONstringify(v) == [text |-> "json", val |-> v]
JSONparseThrows(item) == item.text = "corrupt"
JSONparse(item) == item.val

\* typeof v === 'object' && v !== null, for the values the model stores
IsObject(v) == DOMAIN v # DOMAIN Null

\* parsedUser && typeof parsedUser === 'object' && parsedUser.name
IsUser(v) == "name" \in DOMAIN v /\ v.name # <<>>

\* a.score >= b.score for every a before b
SortedDesc(list) ==
    \A i \in 1..Len(list) : \A j \in 1..Len(list) :
        i < j => list[i].score >= list[j].score

\* insert e before the first element whose score is <= e.score
RECURSIVE InsertDescBeforeEqual(_, _)
InsertDescBeforeEqual(sorted, e) ==
    IF sorted = <<>> THEN <<e>>
    ELSE IF Head(sorted).score > e.score
         THEN <<Head(sorted)>> \o InsertDescBeforeEqual(Tail(sorted), e)
         ELSE <<e>> \o sorted

\* insert e after every element whose score is >= e.score (stable)
RECURSIVE InsertDesc(_, _)
InsertDesc(sorted, e) ==
    IF sorted = <<>> THEN <<e>>
    ELSE IF Head(sorted).score >= e.score
         THEN <<Head(sorted)>> \o InsertDesc(Tail(sorted), e)
         ELSE <<e>> \o sorted

\* Array.prototype.sort((a, b) => b.score - a.score): stable, descending
RECURSIVE SortDesc(_)
SortDesc(list) ==
    IF list = <<>> THEN <<>>
    ELSE InsertDesc(SortDesc(SubSeq(list, 1, Len(list) - 1)), list[Len(list)])

\* slice(0, 11): the cap off by one
KeepTopOffByOne(list) == SubSeq(list, 1, Min(Len(list), TopN + 1))

\* slice(0, 10)
KeepTop(list) == SubSeq(list, 1, Min(Len(list), TopN))

\* the entry saveGameScore builds: {player, score, date, ...additionalData},
\* a field of additionalData replacing a field of the same name before it
ScoreEntry(user, score, date, extra) ==
    extra @@ [player |-> IF user # Null THEN user.name ELSE Anonymous,
              score  |-> score,
              date   |-> date]

\* the game's list after push, sort and slice
PushSortSlice(list, entry) == KeepTop(SortDesc(Append(list, entry)))

\* a getLeaderboard that leaves the first entry out
getLeaderboardTail(scores, gameName) ==
    IF scores[gameName] = <<>> THEN <<>> ELSE Tail(scores[gameName])

\* getLeaderboard
getLeaderboard(scores, gameName) == scores[gameName]

\* a saveUserData that writes the scores record only
saveUserDataScoresOnly(user, scores) ==
    IF ~lsAvailable
    THEN [user |-> lsUser, scores |-> lsScores]
    ELSE [user |-> lsUser, scores |-> JSONstringify(scores)]

\* saveUserData: the two records after the call, given the globals to write
saveUserData(user, scores) ==
    IF ~lsAvailable
    THEN [user |-> lsUser, scores |-> lsScores]
    ELSE [user   |-> IF user # Null /\ IsUser(user)
                     THEN JSONstringify(user) ELSE lsUser,
          scores |-> JSONstringify(scores)]

\* loadUserData on globals (user, scores): the globals after the call
loadUserData(user, scores) ==
    IF ~lsAvailable THEN [user |-> Null, scores |-> EmptyScores]
    ELSE IF lsUser # NoItem /\ JSONparseThrows(lsUser)
         THEN [user |-> Null, scores |-> EmptyScores]
    ELSE IF lsScores # NoItem /\ JSONparseThrows(lsScores)
         THEN [user |-> Null, scores |-> EmptyScores]
    ELSE [user   |-> IF lsUser = NoItem THEN user
                     ELSE IF IsObject(JSONparse(lsUser)) /\ IsUser(JSONparse(lsUser))
                          THEN JSONparse(lsUser) ELSE Null,
          scores |-> IF lsScores = NoItem THEN scores
                     ELSE IF IsObject(JSONparse(lsScores))
                          THEN JSONparse(lsScores) ELSE EmptyScores]

\* loadUserData reaches its catch block: a stored record does not parse
loadUserDataCatches ==
    /\ lsAvailable
    /\ \/ lsUser # NoItem /\ JSONparseThrows(lsUser)
       \/ lsScores # NoItem /\ JSONparseThrows(lsScores)

\* setCurrentUser's validation: the error it throws, or "ok"
setCurrentUserCheck(name) ==
    IF name = <<>> THEN "Invalid name provided"
    ELSE IF Len(Trim(name)) = 0 THEN "Name cannot be empty"
    ELSE IF Len(Trim(name)) > MaxNameLen THEN "Name is too long (max 50 characters)"
    ELSE "ok"

\* a profile that carries the games counted so far over
NewUserKeepingCount(name, date) ==
    [name |-> Trim(name), joinDate |-> date,
     totalGamesPlayed |-> IF currentUser # Null
                          THEN currentUser.totalGamesPlayed ELSE 0]

\* a profile that keeps the name as typed
NewUserUntrimmed(name, date) ==
    [name |-> name, joinDate |-> date, totalGamesPlayed |-> 0]

\* the profile setCurrentUser creates
NewUser(name, date) ==
    [name |-> Trim(name), joinDate |-> date, totalGamesPlayed |-> 0]

----------------------------------------------------------------------------
(* Inputs of the utility calls *)

\* new Date().toISOString(), as a logical timestamp
Dates == {1, 2}

\* scores passed to saveGameScore directly
ScoreSamples == {0, 100, 250}

\* additionalData passed to saveGameScore directly
ExtraSamples == {[attempts |-> 1], [attempts |-> 1, score |-> 100]}

\* names passed to setCurrentUser
NameInputs ==
    {<<>>, <<" ">>, <<"a">>, <<" ", "b", " ">>,
     Rep("c", MaxNameLen), Rep("d", MaxNameLen + 1)}

----------------------------------------------------------------------------
(* Utility calls as actions *)

\* setCurrentUser(name)
SetCurrentUser(name, date) ==
    /\ ops < MaxOps
    /\ IF setCurrentUserCheck(name) = "ok"
       THEN /\ currentUser' = NewUser(name, date)
            /\ lsUser' = saveUserData(currentUser', gameScores).user
            /\ lsScores' = saveUserData(currentUser', gameScores).scores
            /\ ops' = ops + 1
            /\ lastCall' = [op |-> "setCurrentUser", threw |-> FALSE,
                            name |-> name]
       ELSE /\ UNCHANGED <<currentUser, lsUser, lsScores, ops>>
            /\ lastCall' = [op |-> "setCurrentUser", threw |-> TRUE,
                            name |-> name]
    /\ UNCHANGED <<gameScores, lsAvailable, allGameVars>>

\* incrementGamesPlayed()
IncrementGamesPlayed ==
    /\ ops < MaxOps
    /\ IF currentUser # Null
       THEN /\ currentUser' =
                [currentUser EXCEPT !.totalGamesPlayed = @ + 1]
            /\ lsUser' = saveUserData(currentUser', gameScores).user
            /\ lsScores' = saveUserData(currentUser', gameScores).scores
            /\ ops' = ops + 1
       ELSE UNCHANGED <<currentUser, lsUser, lsScores, ops>>
    /\ lastCall' = [op |-> "incrementGamesPlayed", threw |-> FALSE]
    /\ UNCHANGED <<gameScores, lsAvailable, allGameVars>>

\* a saveGameScore that gives up when localStorage is unavailable
saveGameScoreIfAvailable(gameName, score, date, extra) ==
    /\ gameScores' =
           IF lsAvailable
           THEN [gameScores EXCEPT ![gameName] =
                    PushSortSlice(@, ScoreEntry(currentUser, score, date, extra))]
           ELSE gameScores
    /\ lsUser' = saveUserData(currentUser, gameScores').user
    /\ lsScores' = saveUserData(currentUser, gameScores').scores

\* a saveGameScore that pushes the entry on every game's list
saveGameScoreAllLists(gameName, score, date, extra) ==
    /\ gameScores' =
           [g \in DOMAIN gameScores |->
               PushSortSlice(gameScores[g],
                             ScoreEntry(currentUser, score, date, extra))]
    /\ lsUser' = saveUserData(currentUser, gameScores').user
    /\ lsScores' = saveUserData(currentUser, gameScores').scores

\* saveGameScore(gameName, score, additionalData): the state change
saveGameScore(gameName, score, date, extra) ==
    /\ gameScores' =
           [gameScores EXCEPT ![gameName] =
               PushSortSlice(@, ScoreEntry(currentUser, score, date, extra))]
    /\ lsUser' = saveUserData(currentUser, gameScores').user
    /\ lsScores' = saveUserData(currentUser, gameScores').scores

\* saveGameScore called directly
SaveGameScore(gameName, score, date, extra) ==
    /\ ops < MaxOps
    /\ saveGameScore(gameName, score, date, extra)
    /\ ops' = ops + 1
    /\ lastCall' = [op |-> "saveGameScore", threw |-> FALSE,
                    gameName |-> gameName, score |-> score,
                    entry |-> ScoreEntry(currentUser, score, date, extra)]
    /\ UNCHANGED <<currentUser, lsAvailable, allGameVars>>

\* getLeaderboard(gameName) called directly
GetLeaderboard(gameName) ==
    /\ ops < MaxOps
    /\ lastCall' = [op |-> "getLeaderboard", threw |-> FALSE,
                    gameName |-> gameName,
                    again |-> (/\ lastCall.op = "getLeaderboard"
                               /\ lastCall.gameName = gameName),
                    result |-> getLeaderboard(gameScores, gameName)]
    /\ ops' = ops + 1
    /\ UNCHANGED <<storeVars, allGameVars>>

\* a page load: fresh globals, then loadUserData (DOMContentLoaded)
PageLoad ==
    /\ currentUser' = loadUserData(Null, EmptyScores).user
    /\ gameScores' = loadUserData(Null, EmptyScores).scores
    /\ lastCall' = [op |-> "loadUserData", threw |-> FALSE]
    /\ UNCHANGED <<lsUser, lsScores, lsAvailable, ops, allGameVars>>

----------------------------------------------------------------------------
(* What earlier sessions can have left in localStorage *)

\* the n-th entry an earlier session saved
SeedEntry(n) ==
    [player |-> Anonymous, score |-> ((n * 7) % 4) * 50, date |-> 1,
     attempts |-> 1]

\* a list built by n saveGameScore calls
RECURSIVE SeedList(_)
SeedList(n) == IF n = 0 THEN <<>> ELSE PushSortSlice(SeedList(n - 1), SeedEntry(n))

\* lengths of the stored numberGuessing list at page load
SeedLens == {0, TopN - 1, TopN}

SeedScores(n) == [EmptyScores EXCEPT !["numberGuessing"] = SeedList(n)]

SeedUser == [name |-> <<"z">>, joinDate |-> 1, totalGamesPlayed |-> 0]

----------------------------------------------------------------------------
(* The utility alone *)

vars == <<storeVars, ops, lastCall, allGameVars>>

\* a choice variable holding null
NoChoice == "null"

\* the variables of a game script as declared, before any handler has run
NGDeclared ==
    /\ secretNumber = 0
    /\ attemptsLeft = 5
    /\ inputDisabled = FALSE
    /\ guessNo = 0
    /\ script = 0

RPSDeclared ==
    /\ playerScore = 0
    /\ computerScore = 0
    /\ currentRound = 1
    /\ playerChoice = NoChoice
    /\ computerChoice = NoChoice
    /\ choicesDisabled = FALSE
    /\ nChoices = 0
    /\ nTies = 0

MMDeclared ==
    /\ cards = <<>>
    /\ flippedCards = <<>>
    /\ matchedPairs = 0
    /\ moveCount = 0
    /\ elFlipped = {}
    /\ elMatched = {}
    /\ elDisabled = {}
    /\ startBtnShown = FALSE
    /\ newBtnShown = FALSE
    /\ nFlips = 0

PageDeclared ==
    /\ timers = <<>>
    /\ gameStarted = FALSE
    /\ gameEnded = FALSE
    /\ nameSectionShown = FALSE
    /\ controlsShown = FALSE
    /\ nSaves = 0
    /\ nIncs = 0
    /\ nCompleted = 0

InitStore ==
    /\ lsAvailable \in BOOLEAN
    /\ lsUser \in {NoItem, Corrupt, JSONstringify(SeedUser)}
    /\ lsScores \in {NoItem, Corrupt}
                     \cup {JSONstringify(SeedScores(n)) : n \in SeedLens}
    /\ currentUser = loadUserData(Null, EmptyScores).user
    /\ gameScores = loadUserData(Null, EmptyScores).scores
    /\ ops = 0
    /\ lastCall = [op |-> "loadUserData", threw |-> FALSE]
    /\ PageDeclared
    /\ NGDeclared
    /\ RPSDeclared
    /\ MMDeclared

NextStore ==
    \/ \E name \in NameInputs, date \in Dates : SetCurrentUser(name, date)
    \/ IncrementGamesPlayed
    \/ \E g \in GameNames, s \in ScoreSamples, d \in Dates, x \in ExtraSamples :
           SaveGameScore(g, s, d, x)
    \/ \E g \in GameNames : GetLeaderboard(g)
    \/ PageLoad

SpecStore == InitStore /\ [][NextStore]_vars

----------------------------------------------------------------------------
(* One session of the utility without localStorage: the globals live as    *)
(* long as the page, and more scores are saved than a leaderboard holds    *)

\* saveGameScore calls of the session
MaxSaves == 11

\* final scores of the session's games
SessionScores == {0, 100}

\* saveGameScore called by a finished game of the session, new Date() being
\* later at every call
SessionSaveGameScore(gameName, score) ==
    /\ ops < MaxSaves
    /\ saveGameScore(gameName, score, ops + 1, [attempts |-> 1])
    /\ ops' = ops + 1
    /\ lastCall' = [op |-> "saveGameScore", threw |-> FALSE,
                    gameName |-> gameName, score |-> score,
                    entry |-> ScoreEntry(currentUser, score, ops + 1,
                                         [attempts |-> 1])]
    /\ UNCHANGED <<currentUser, lsAvailable, allGameVars>>

InitSession ==
    /\ InitStore
    /\ ~lsAvailable
    /\ lsUser = NoItem
    /\ lsScores = NoItem

NextSession ==
    \/ \E name \in NameInputs : SetCurrentUser(name, ops + 1)
    \/ IncrementGamesPlayed
    \/ \E s \in SessionScores : SessionSaveGameScore("rockPaperScissors", s)

SpecSession == InitSession /\ [][NextSession]_vars

----------------------------------------------------------------------------
(* The utility as js/main.js has it: the same globals and records, no      *)
(* validation of names or of loaded data, and a try/catch around the       *)
(* localStorage calls instead of an availability test                      *)

\* saveUserData of js/main.js: the two records after the call
basicSaveUserData(user, scores) ==
    IF ~lsAvailable
    THEN [user |-> lsUser, scores |-> lsScores]
    ELSE [user   |-> IF user # Null THEN JSONstringify(user) ELSE lsUser,
          scores |-> JSONstringify(scores)]

\* loadUserData of js/main.js on globals (user, scores)
basicLoadUserData(user, scores) ==
    IF ~lsAvailable THEN [user |-> Null, scores |-> EmptyScores]
    ELSE IF lsUser # NoItem /\ JSONparseThrows(lsUser)
         THEN [user |-> Null, scores |-> EmptyScores]
    ELSE IF lsScores # NoItem /\ JSONparseThrows(lsScores)
         THEN [user |-> Null, scores |-> EmptyScores]
    ELSE [user   |-> IF lsUser = NoItem THEN user ELSE JSONparse(lsUser),
          scores |-> IF lsScores = NoItem THEN scores ELSE JSONparse(lsScores)]

\* setCurrentUser(name) of js/main.js
BasicSetCurrentUser(name, date) ==
    /\ ops < MaxOps
    /\ currentUser' = NewUser(name, date)
    /\ lsUser' = basicSaveUserData(currentUser', gameScores).user
    /\ lsScores' = basicSaveUserData(currentUser', gameScores).scores
    /\ ops' = ops + 1
    /\ lastCall' = [op |-> "setCurrentUser", threw |-> FALSE, name |-> name]
    /\ UNCHANGED <<gameScores, lsAvailable, allGameVars>>

\* incrementGamesPlayed() of js/main.js
BasicIncrementGamesPlayed ==
    /\ ops < MaxOps
    /\ IF currentUser # Null
       THEN /\ currentUser' =
                [currentUser EXCEPT !.totalGamesPlayed = @ + 1]
            /\ lsUser' = basicSaveUserData(currentUser', gameScores).user
            /\ lsScores' = basicSaveUserData(currentUser', gameScores).scores
            /\ ops' = ops + 1
       ELSE UNCHANGED <<currentUser, lsUser, lsScores, ops>>
    /\ lastCall' = [op |-> "incrementGamesPlayed", threw |-> FALSE]
    /\ UNCHANGED <<gameScores, lsAvailable, allGameVars>>

\* saveGameScore(gameName, score, additionalData) of js/main.js
BasicSaveGameScore(gameName, score, date, extra) ==
    /\ ops < MaxOps
    /\ gameScores' =
           [gameScores EXCEPT ![gameName] =
               PushSortSlice(@, ScoreEntry(currentUser, score, date, extra))]
    /\ lsUser' = basicSaveUserData(currentUser, gameScores').user
    /\ lsScores' = basicSaveUserData(currentUser, gameScores').scores
    /\ ops' = ops + 1
    /\ lastCall' = [op |-> "saveGameScore", threw |-> FALSE,
                    gameName |-> gameName, score |-> score,
                    entry |-> ScoreEntry(currentUser, score, date, extra)]
    /\ UNCHANGED <<currentUser, lsAvailable, allGameVars>>

\* a page load of js/main.js: fresh globals, then loadUserData
BasicPageLoad ==
    /\ currentUser' = basicLoadUserData(Null, EmptyScores).user
    /\ gameScores' = basicLoadUserData(Null, EmptyScores).scores
    /\ lastCall' = [op |-> "loadUserData", threw |-> FALSE]
    /\ UNCHANGED <<lsUser, lsScores, lsAvailable, ops, allGameVars>>

InitBasic ==
    /\ lsAvailable \in BOOLEAN
    /\ lsUser \in {NoItem, Corrupt, JSONstringify(SeedUser)}
    /\ lsScores \in {NoItem, Corrupt}
                     \cup {JSONstringify(SeedScores(n)) : n \in SeedLens}
    /\ currentUser = basicLoadUserData(Null, EmptyScores).user
    /\ gameScores = basicLoadUserData(Null, EmptyScores).scores
    /\ ops = 0
    /\ lastCall = [op |-> "loadUserData", threw |-> FALSE]
    /\ PageDeclared
    /\ NGDeclared
    /\ RPSDeclared
    /\ MMDeclared

NextBasic ==
    \/ \E name \in NameInputs, date \in Dates : BasicSetCurrentUser(name, date)
    \/ BasicIncrementGamesPlayed
    \/ \E g \in GameNames, s \in ScoreSamples, d \in Dates, x \in ExtraSamples :
           BasicSaveGameScore(g, s, d, x)
    \/ BasicPageLoad

SpecBasic == InitBasic /\ [][NextBasic]_vars

----------------------------------------------------------------------------
(* Page scripts: the functions that shadow the shared utility's           *)

\* call depth at which the engine gives up with a RangeError
MaxStack == 3

\* a game script's createLeaderboard(): its body is the call
\* createLeaderboard('<game>', leaderboardContainer), and the name resolves
\* to the page's own function, the last one declared under that name
RECURSIVE pageCreateLeaderboard(_)
pageCreateLeaderboard(depth) ==
    IF depth >= MaxStack THEN "RangeError" ELSE pageCreateLeaderboard(depth + 1)

\* the showMessage(message, type) of the number guessing and memory match
\* scripts: typeof showMessage === 'function' holds, then it calls itself
RECURSIVE pageShowMessage(_)
pageShowMessage(depth) ==
    IF depth >= MaxStack THEN "RangeError" ELSE pageShowMessage(depth + 1)

\* a page limit equal to the utility's
PageNameLenOfUtility == MaxNameLen

\* name length limit of the pages' handleSetName
PageNameLen == 20

\* names typed into a page's name field
PageNameInputs ==
    {<<>>, <<" ">>, <<" ", "b", " ">>,
     Rep("c", PageNameLen), Rep("d", PageNameLen + 1)}

\* the end-of-game bookkeeping every game script does: saveGameScore, then
\* createLeaderboard(), then incrementGamesPlayed() if control gets there
recordGame(gameName, score, date, extra) ==
    LET reached == pageCreateLeaderboard(0) = "returned" IN
    /\ gameScores' =
           [gameScores EXCEPT ![gameName] =
               PushSortSlice(@, ScoreEntry(currentUser, score, date, extra))]
    /\ currentUser' =
           IF reached /\ currentUser # Null
           THEN [currentUser EXCEPT !.totalGamesPlayed = @ + 1]
           ELSE currentUser
    /\ lsUser' = saveUserData(currentUser', gameScores').user
    /\ lsScores' = saveUserData(currentUser', gameScores').scores
    /\ nSaves' = nSaves + 1
    /\ nIncs' = IF reached THEN nIncs + 1 ELSE nIncs

----------------------------------------------------------------------------
(* Number guessing page *)

\* games started per run of the number guessing page
MaxGamesNG == 2

\* attempts a game starts with
StartAttempts == 5

\* Math.random() takes the values n / RandomDen, n in 0..RandomDen - 1
RandomDen == 1000

\* getRandomNumber(min, max) of the utility, Math.random() being n / RandomDen
getRandomNumber(min, max, n) == ((n * (max - min + 1)) \div RandomDen) + min

\* the values of Math.random() the games are played with
RandomSamples == {65, 499}

\* getRandomNumber(1, 100), sampled
Secrets == {getRandomNumber(1, 100, n) : n \in RandomSamples}

\* Math.round((Date.now() - startTime) / 1000), sampled
TimeSamples == {30, 600}

\* Date of a score entry on a game page
PageDates == {1}

Digits == {"0", "1", "2", "3", "4", "5", "6", "7", "8", "9"}

DigitVal(c) ==
    CASE c = "0" -> 0 [] c = "1" -> 1 [] c = "2" -> 2 [] c = "3" -> 3
      [] c = "4" -> 4 [] c = "5" -> 5 [] c = "6" -> 6 [] c = "7" -> 7
      [] c = "8" -> 8 [] c = "9" -> 9

\* the value of the leading digits of s, continuing from acc
RECURSIVE LeadingDigits(_, _)
LeadingDigits(s, acc) ==
    IF s # <<>> /\ Head(s) \in Digits
    THEN LeadingDigits(Tail(s), acc * 10 + DigitVal(Head(s)))
    ELSE acc

\* parseInt(s): leading white space skipped, an optional sign, then digits up
\* to the first other character; NaN when there is no digit
parseInt(s) ==
    LET t == TrimLeft(s)
        signed == t # <<>> /\ Head(t) \in {"-", "+"}
        body == IF signed THEN Tail(t) ELSE t
    IN  IF body = <<>> \/ Head(body) \notin Digits
        THEN [nan |-> TRUE, n |-> 0]
        ELSE [nan |-> FALSE,
              n |-> IF signed /\ Head(t) = "-"
                    THEN 0 - LeadingDigits(body, 0)
                    ELSE LeadingDigits(body, 0)]

\* what the player can have typed when a guess is submitted
GuessInputs ==
    {<<>>, <<" ">>, <<"a", "b">>, <<"0">>, <<"1", "0", "1">>, <<"-", "5">>,
     <<"7">>, <<"1", "0">>, <<"9", "0">>, <<"4", "0">>, <<"6", "0">>,
     <<"5", "0">>, <<"4", "0", "x">>, <<"4", "0", ".", "5">>}

\* the guesses of the worked example, for secret 50
Scenario == <<10, 90, 40, 60, 50>>

\* calculateScore with the attempt counted after the score, not before
calculateScoreOffByOne(left, timeTaken) ==
    (left + 1) * 100 + Max(0, 500 - timeTaken) + (4 - left) * 50

\* calculateScore(attemptsLeft, timeTaken)
calculateScore(left, timeTaken) ==
    LET attemptScore == left * 100
        timeBonus == Max(0, 500 - timeTaken)
        difficultyBonus == (5 - left) * 50
    IN  attemptScore + timeBonus + difficultyBonus

\* handleGuess's validation of the typed value: "ok" or the reason it
\* returns early
guessCheck(inputValue) ==
    IF inputValue = <<>> \/ Trim(inputValue) = <<>> THEN "empty"
    ELSE IF parseInt(inputValue).nan THEN "not a number"
    ELSE IF parseInt(inputValue).n < 1 \/ parseInt(inputValue).n > 100
         THEN "out of range"
    ELSE "ok"

\* a startGame() that leaves attemptsLeft as the last game left it
ngStartGameKeepingAttempts ==
    /\ ops < MaxGamesNG
    /\ ops' = ops + 1
    /\ secretNumber' \in Secrets
    /\ attemptsLeft' = attemptsLeft
    /\ gameStarted' = TRUE
    /\ gameEnded' = FALSE
    /\ inputDisabled' = FALSE
    /\ controlsShown' = FALSE
    /\ guessNo' = 0
    /\ script' = 0

\* startGame() of the number guessing script
ngStartGame ==
    /\ ops < MaxGamesNG
    /\ ops' = ops + 1
    /\ secretNumber' \in Secrets
    /\ attemptsLeft' = StartAttempts
    /\ gameStarted' = TRUE
    /\ gameEnded' = FALSE
    /\ inputDisabled' = FALSE
    /\ controlsShown' = FALSE
    /\ guessNo' = 0
    /\ script' = 0

\* handleSetName(): the name field is only reachable while its section shows
NGHandleSetName(typed, date) ==
    /\ nameSectionShown
    /\ UNCHANGED <<timers, rpsVars, mmVars>>
    /\ LET name == Trim(typed) IN
       IF Len(name) = 0 \/ Len(name) > PageNameLen
          \/ setCurrentUserCheck(name) # "ok"
       THEN /\ lastCall' = [op |-> "handleSetName", result |-> "rejected",
                            typed |-> typed, threw |-> pageShowMessage(0) = "RangeError"]
            /\ UNCHANGED <<storeVars, ops, pageVars, histVars, ngVars>>
       ELSE /\ currentUser' = NewUser(name, date)
            /\ lsUser' = saveUserData(currentUser', gameScores).user
            /\ lsScores' = saveUserData(currentUser', gameScores).scores
            /\ nameSectionShown' = FALSE
            /\ ngStartGame
            /\ lastCall' = [op |-> "handleSetName", result |-> "started",
                            typed |-> typed, threw |-> FALSE]
            /\ UNCHANGED <<gameScores, lsAvailable, histVars>>

\* handleGuess testing the exhausted attempts before the correct guess
guessOutcomeLostFirst(guess, secret, left) ==
    IF left = 0 THEN "lost"
    ELSE IF guess = secret THEN "won"
    ELSE "wrong"

\* which branch handleGuess takes once attemptsLeft has been decremented to
\* left: the correct guess is tested first, the exhausted attempts second
guessOutcome(guess, secret, left) ==
    IF guess = secret THEN "won"
    ELSE IF left = 0 THEN "lost"
    ELSE "wrong"

\* handleCorrectGuess(), attemptsLeft already decremented to left
handleCorrectGuess(left, timeTaken, date) ==
    /\ gameEnded' = TRUE
    /\ nCompleted' = nCompleted + 1
    /\ recordGame("numberGuessing", calculateScore(left, timeTaken), date,
                  [attempts |-> 5 - left, time |-> timeTaken,
                   secretNumber |-> secretNumber])
    /\ controlsShown' = TRUE
    /\ inputDisabled' = TRUE
    /\ UNCHANGED <<lsAvailable, gameStarted, nameSectionShown>>

\* handleGameOver recording a score for the lost game
handleGameOverScored ==
    /\ gameEnded' = TRUE
    /\ controlsShown' = TRUE
    /\ inputDisabled' = TRUE
    /\ recordGame("numberGuessing", 0, 1,
                  [attempts |-> 5, time |-> 0, secretNumber |-> secretNumber])
    /\ UNCHANGED <<lsAvailable, nCompleted, gameStarted, nameSectionShown>>

\* handleGameOver()
handleGameOver ==
    /\ gameEnded' = TRUE
    /\ controlsShown' = TRUE
    /\ inputDisabled' = TRUE
    /\ UNCHANGED <<storeVars, histVars, gameStarted, nameSectionShown>>

\* isPrime(num): trial division by the odd numbers i with i <= Math.sqrt(num)
RECURSIVE isPrimeFrom(_, _)
isPrimeFrom(num, i) ==
    IF i * i > num THEN TRUE
    ELSE IF num % i = 0 THEN FALSE
    ELSE isPrimeFrom(num, i + 2)

isPrime(num) ==
    IF num < 2 THEN FALSE
    ELSE IF num = 2 THEN TRUE
    ELSE IF num % 2 = 0 THEN FALSE
    ELSE isPrimeFrom(num, 3)

\* isPerfectSquare(num): Math.sqrt is correctly rounded, so its value is an
\* integer exactly when num is the square of one
isPerfectSquare(num) == \E k \in 0..num : k * k = num

\* isPerfectCube(num): Math.cbrt, taken to return the exact root of a cube
isPerfectCube(num) == \E k \in 0..num : k * k * k = num

\* the loop of isFibonacci: a, b run along the sequence until b >= num
RECURSIVE fibLoop(_, _, _)
fibLoop(a, b, num) ==
    IF b < num THEN fibLoop(b, a + b, num) ELSE b = num

isFibonacci(num) ==
    IF num < 0 THEN FALSE
    ELSE IF num = 0 \/ num = 1 THEN TRUE
    ELSE fibLoop(0, 1, num)

DigitChar(d) ==
    CASE d = 0 -> "0" [] d = 1 -> "1" [] d = 2 -> "2" [] d = 3 -> "3"
      [] d = 4 -> "4" [] d = 5 -> "5" [] d = 6 -> "6" [] d = 7 -> "7"
      [] d = 8 -> "8" [] d = 9 -> "9"

\* num.toString().split('') for a natural number
RECURSIVE numToChars(_)
numToChars(num) ==
    IF num < 10 THEN <<DigitChar(num)>>
    ELSE Append(numToChars(num \div 10), DigitChar(num % 10))

\* chars.reduce((sum, digit) => sum + parseInt(digit), acc)
RECURSIVE sumDigits(_, _)
sumDigits(chars, acc) ==
    IF chars = <<>> THEN acc
    ELSE sumDigits(Tail(chars), acc + parseInt(<<Head(chars)>>).n)

\* getNumberProperties(num): the list of hints, in the order they are pushed
getNumberProperties(num) ==
    LET digitSum == sumDigits(numToChars(num), 0)
        when(c, text) == IF c THEN <<text>> ELSE <<>>
    IN  <<IF num % 2 = 0 THEN "The number is even." ELSE "The number is odd.">>
        \o <<IF isPrime(num) THEN "The number is prime!"
                             ELSE "The number is composite (not prime).">>
        \o when(num % 3 = 0, "The number is divisible by 3.")
        \o when(num % 5 = 0, "The number is divisible by 5.")
        \o when(num % 7 = 0, "The number is divisible by 7.")
        \o when(num % 10 = 0, "The number is divisible by 10.")
        \o when(isPerfectSquare(num), "The number is a perfect square!")
        \o when(isPerfectCube(num), "The number is a perfect cube!")
        \o when(isFibonacci(num), "The number is in the Fibonacci sequence!")
        \o <<IF num <= 25 THEN "The number is in the range 1-25."
              ELSE IF num <= 50 THEN "The number is in the range 26-50."
              ELSE IF num <= 75 THEN "The number is in the range 51-75."
              ELSE "The number is in the range 76-100.">>
        \o <<IF digitSum <= 5 THEN "The sum of its digits is 5 or less."
              ELSE IF digitSum <= 10 THEN "The sum of its digits is between 6-10."
              ELSE "The sum of its digits is 11 or more.">>
        \o (IF num = 42
            THEN <<"The number is the answer to life, the universe, and everything!">>
            ELSE IF num = 69 THEN <<"The number is... nice.">>
            ELSE IF num = 100 THEN <<"The number is a century!">>
            ELSE IF num = 1 THEN <<"The number is the first natural number!">>
            ELSE <<>>)

\* generateHint(secretNumber, guess), Math.random() being rnd / RandomDen: the
\* two sentences it joins, the first with the number it quotes
generateHint(secret, guess, rnd) ==
    LET properties == getNumberProperties(secret)
        randomProperty == properties[((rnd * Len(properties)) \div RandomDen) + 1]
    IN  [first |-> IF guess < secret
                   THEN "Too low! The number is higher than"
                   ELSE "Too high! The number is lower than",
         than |-> guess,
         property |-> randomProperty]

\* handleWrongGuess(guess): only the hint display changes; the text and the
\* class it is given
handleWrongGuess(guess, rnd) ==
    [hint |-> generateHint(secretNumber, guess, rnd),
     left |-> attemptsLeft',
     type |-> IF guess < secretNumber THEN "too-low" ELSE "too-high"]

\* handleGuess(), Math.random() being rnd / RandomDen
handleGuess(inputValue, rnd) ==
    /\ ~inputDisabled
    /\ UNCHANGED <<timers, rpsVars, mmVars>>
    /\ IF ~gameStarted \/ gameEnded
       THEN /\ lastCall' = [op |-> "handleGuess", result |-> "inactive",
                            threw |-> FALSE, input |-> inputValue]
            /\ UNCHANGED <<storeVars, ops, pageVars, histVars, ngVars>>
       ELSE IF guessCheck(inputValue) # "ok"
       THEN /\ lastCall' = [op |-> "handleGuess", result |-> "rejected",
                            threw |-> pageShowMessage(0) = "RangeError",
                            input |-> inputValue]
            /\ UNCHANGED <<storeVars, ops, pageVars, histVars, ngVars>>
       ELSE LET guess == parseInt(inputValue).n
                left == attemptsLeft - 1
                outcome == guessOutcome(guess, secretNumber, left)
            IN  /\ attemptsLeft' = left
                /\ guessNo' = guessNo + 1
                /\ script' = IF script >= 0 /\ script < Len(Scenario)
                                /\ secretNumber = 50
                                /\ guess = Scenario[script + 1]
                             THEN script + 1 ELSE 0 - 1
                /\ CASE outcome = "won" ->
                        \E t \in TimeSamples, d \in PageDates :
                            /\ handleCorrectGuess(left, t, d)
                            /\ lastCall' =
                                 [op |-> "handleGuess", result |-> "won",
                                  threw |-> pageCreateLeaderboard(0) = "RangeError",
                                  input |-> inputValue, guess |-> guess,
                                  time |-> t, date |-> d]
                     [] outcome = "lost" ->
                        /\ handleGameOver
                        /\ lastCall' =
                             [op |-> "handleGuess", result |-> "lost",
                              threw |-> pageShowMessage(0) = "RangeError",
                              input |-> inputValue, guess |-> guess]
                     [] outcome = "wrong" ->
                        /\ lastCall' =
                             [op |-> "handleGuess", result |-> "wrong",
                              threw |-> FALSE,
                              input |-> inputValue, guess |-> guess,
                              shown |-> handleWrongGuess(guess, rnd)]
                        /\ UNCHANGED <<storeVars, histVars, pageVars,
                                       inputDisabled>>
                /\ UNCHANGED <<ops, secretNumber>>

\* handleGuess(), run by a click on the submit button or Enter in the field
NGHandleGuess(inputValue) ==
    \E rnd \in RandomSamples : handleGuess(inputValue, rnd)

\* startNewGame(): the New Game button sits in the game controls
NGStartNewGame ==
    /\ controlsShown
    /\ UNCHANGED <<timers, rpsVars, mmVars>>
    /\ ngStartGame
    /\ lastCall' = [op |-> "startNewGame", result |-> "started", threw |-> FALSE]
    /\ UNCHANGED <<storeVars, histVars, nameSectionShown>>

\* the page after both scripts' DOMContentLoaded handlers: loadUserData, then
\* checkUserStatus starts a game when a user is stored and shows the name
\* section otherwise
InitNG ==
    /\ lsAvailable = TRUE
    /\ lsUser \in {NoItem, Corrupt, JSONstringify(SeedUser)}
    /\ lsScores = NoItem
    /\ currentUser = loadUserData(Null, EmptyScores).user
    /\ gameScores = loadUserData(Null, EmptyScores).scores
    /\ lastCall = [op |-> "DOMContentLoaded", result |-> "loaded",
                   loadThrew |-> (/\ loadUserDataCatches
                                  /\ pageShowMessage(0) = "RangeError"),
                   threw |-> pageCreateLeaderboard(0) = "RangeError"]
    /\ nSaves = 0 /\ nIncs = 0 /\ nCompleted = 0
    /\ gameEnded = FALSE
    /\ controlsShown = FALSE
    /\ inputDisabled = FALSE
    /\ guessNo = 0 /\ script = 0
    /\ attemptsLeft = StartAttempts
    /\ timers = <<>>
    /\ RPSDeclared
    /\ MMDeclared
    /\ IF currentUser # Null
       THEN /\ gameStarted = TRUE
            /\ secretNumber \in Secrets
            /\ nameSectionShown = FALSE
            /\ ops = 1
       ELSE /\ gameStarted = FALSE
            /\ secretNumber = 0
            /\ nameSectionShown = TRUE
            /\ ops = 0

NextNG ==
    \/ \E typed \in PageNameInputs, d \in Dates : NGHandleSetName(typed, d)
    \/ \E v \in GuessInputs : NGHandleGuess(v)
    \/ NGStartNewGame

SpecNG == InitNG /\ [][NextNG]_vars

(* The hints of the number guessing game, for every secret *)

\* every value getRandomNumber(1, 100) can return
AllSecrets == {getRandomNumber(1, 100, n) : n \in 0..(RandomDen - 1)}

\* values of Math.random() that select every index of a list of up to 20
HintRandoms == {50 * n : n \in 0..19}

\* guesses below and above the secrets
HintGuesses == {<<"1">>, <<"2">>, <<"9", "9">>, <<"1", "0", "0">>}

\* the page loaded with a stored user: checkUserStatus has started a game
InitHint ==
    /\ lsAvailable = TRUE
    /\ lsUser = JSONstringify(SeedUser)
    /\ lsScores = NoItem
    /\ currentUser = loadUserData(Null, EmptyScores).user
    /\ gameScores = loadUserData(Null, EmptyScores).scores
    /\ lastCall = [op |-> "DOMContentLoaded", result |-> "loaded",
                   loadThrew |-> FALSE,
                   threw |-> pageCreateLeaderboard(0) = "RangeError"]
    /\ nSaves = 0 /\ nIncs = 0 /\ nCompleted = 0
    /\ gameStarted = TRUE
    /\ gameEnded = FALSE
    /\ nameSectionShown = FALSE
    /\ controlsShown = FALSE
    /\ inputDisabled = FALSE
    /\ guessNo = 0 /\ script = 0
    /\ attemptsLeft = StartAttempts
    /\ secretNumber \in AllSecrets
    /\ ops = 1
    /\ timers = <<>>
    /\ RPSDeclared
    /\ MMDeclared

NextHint ==
    \E v \in HintGuesses, rnd \in HintRandoms : handleGuess(v, rnd)

SpecHint == InitHint /\ [][NextHint]_vars

----------------------------------------------------------------------------
(* Number guessing: claims *)

\* the numberGuessing leaderboard
ngBoard == getLeaderboard(gameScores, "numberGuessing")

\* the last handler call was a guess that ended the game in Won
ngJustWon == lastCall.op = "handleGuess" /\ lastCall.result = "won"

\* the last handler call was a guess that passed validation
ngJustGuessed ==
    lastCall.op = "handleGuess" /\ lastCall.result \in {"won", "lost", "wrong"}

\* the board holds an entry of the game just won with this score
ngRecorded(score) ==
    \E i \in 1..Len(ngBoard) :
        /\ ngBoard[i].score = score
        /\ ngBoard[i].time = lastCall.time
        /\ ngBoard[i].attempts = guessNo
        /\ ngBoard[i].secretNumber = secretNumber

(* C4, as amended: a win on the k-th valid guess of a game (k in 1..5)     *)
(* leaves attemptsLeft = 5-k and scores (5-k)*100 + timeBonus + k*50; for  *)
(* secret 50 and guesses 10, 90, 40, 60, 50 the game is Won on the 5th     *)
(* guess with attemptsLeft = 0 and score 0*100 + timeBonus + 5*50.         *)
C4_WinOnKthGuess ==
    /\ ngJustWon =>
           /\ guessNo \in 1..5
           /\ gameEnded
           /\ attemptsLeft = 5 - guessNo
           /\ ngRecorded((5 - guessNo) * 100 + Max(0, 500 - lastCall.time)
                         + guessNo * 50)
    /\ script = Len(Scenario) =>
           /\ ngJustWon
           /\ guessNo = 5
           /\ attemptsLeft = 0
           /\ ngRecorded(Max(0, 500 - lastCall.time) + 250)

\* C4 as stated: the k-th guess leaves attemptsLeft = 6-k and scores
\* (6-k)*100 + timeBonus + (k-1)*50
C4_Original ==
    ngJustWon =>
        /\ attemptsLeft = 6 - guessNo
        /\ ngRecorded((6 - guessNo) * 100 + Max(0, 500 - lastCall.time)
                      + (guessNo - 1) * 50)

\* the worked example has been played to its end, in 30 seconds
C4_Witness == script = Len(Scenario) /\ ngJustWon /\ lastCall.time = 30

(* C5: a valid guess equal to the secret while the game is in progress     *)
(* always moves the game to Won, also when it is the fifth guess and       *)
(* attemptsLeft becomes 0, and the recorded score is attemptsLeft*100 +    *)
(* max(0, 500-elapsed) + (5-attemptsLeft)*50 for the attemptsLeft value    *)
(* after the guess was counted.                                            *)
C5_CorrectGuessWins ==
    ngJustGuessed =>
        /\ (lastCall.guess = secretNumber) <=> (lastCall.result = "won")
        /\ lastCall.result = "won" =>
               /\ gameEnded
               /\ ngRecorded(attemptsLeft * 100 + Max(0, 500 - lastCall.time)
                             + (5 - attemptsLeft) * 50)

\* a win on the fifth guess, after more than 500 seconds
C5_Witness ==
    ngJustWon /\ attemptsLeft = 0 /\ secretNumber = 7 /\ lastCall.time = 600

(* C6: five valid guesses none of which equals the secret end the game in  *)
(* Lost with attemptsLeft = 0; no score entry is added to any leaderboard  *)
(* and totalGamesPlayed is unchanged.                                      *)
C6_FiveWrongGuessesLose ==
    [][ (/\ lastCall'.op = "handleGuess"
         /\ lastCall'.result \in {"won", "lost", "wrong"}
         /\ guessNo' = 5
         /\ guessNo = 4
         /\ lastCall'.guess # secretNumber')
        => (/\ lastCall'.result = "lost"
            /\ gameEnded'
            /\ attemptsLeft' = 0
            /\ gameScores' = gameScores
            /\ currentUser' = currentUser
            /\ lsScores' = lsScores
            /\ lsUser' = lsUser
            /\ nSaves' = nSaves) ]_vars

\* a game lost by a player with a stored profile
C6_Witness ==
    /\ lastCall.op = "handleGuess" /\ lastCall.result = "lost"
    /\ guessNo = 5 /\ attemptsLeft = 0 /\ gameEnded
    /\ currentUser # Null

(* C7: saveScore and incrementGamesPlayed happen only on the transition to *)
(* Won, and both happen exactly once per won game.                         *)
C7_Original ==
    /\ nSaves = nCompleted
    /\ nIncs = nCompleted
    /\ Len(ngBoard) = nCompleted
    /\ currentUser # Null => currentUser.totalGamesPlayed = nCompleted

\* the typed value is an optionally signed run of digits
IsNumeral(v) ==
    LET t == Trim(v)
        body == IF t # <<>> /\ Head(t) \in {"-", "+"} THEN Tail(t) ELSE t
    IN  body # <<>> /\ \A i \in 1..Len(body) : body[i] \in Digits

\* the typed value is empty, non-numeric or outside 1..100
InvalidGuess(v) ==
    \/ Trim(v) = <<>>
    \/ ~IsNumeral(v)
    \/ parseInt(v).n < 1
    \/ parseInt(v).n > 100

(* C8: a guess that is empty, non-numeric or outside 1..100 is rejected    *)
(* without consuming an attempt: attemptsLeft, the secret and the game     *)
(* status are unchanged and no score is recorded.                          *)
C8_Original ==
    [][ (/\ lastCall'.op = "handleGuess"
         /\ gameStarted /\ ~gameEnded /\ ~inputDisabled
         /\ InvalidGuess(lastCall'.input))
        => (/\ attemptsLeft' = attemptsLeft
            /\ secretNumber' = secretNumber
            /\ gameStarted' = gameStarted
            /\ gameEnded' = gameEnded
            /\ gameScores' = gameScores
            /\ nSaves' = nSaves) ]_vars

----------------------------------------------------------------------------
(* Rock-paper-scissors page                                                *)
(*                                                                         *)
(* The choice buttons are enabled until disableChoiceButtons() runs, and   *)
(* the game controls are hidden until endGame() shows them.  A pending     *)
(* setTimeout callback is a record of timers: its kind, the seconds left   *)
(* until it is due, and the number of startGame() calls made when the      *)
(* choice it belongs to was handled; a winner check also carries the       *)
(* outcome of the round that set it.                                       *)

\* choices handled per run of the rock-paper-scissors page
MaxChoices == 6

WINNING_SCORE == 3

CHOICES == {"rock", "paper", "scissors"}

\* the sequence s without its i-th element
RemoveAt(s, i) == [k \in 1..(Len(s) - 1) |-> IF k < i THEN s[k] ELSE s[k + 1]]

\* a second passes: every pending callback comes a second nearer; a callback
\* that is due runs before the clock moves on
Tick ==
    /\ timers # <<>>
    /\ \A i \in DOMAIN timers : timers[i].rem >= 1
    /\ timers' = [i \in DOMAIN timers |-> [timers[i] EXCEPT !.rem = @ - 1]]
    /\ UNCHANGED <<storeVars, ops, lastCall, pageVars, histVars, ngVars,
                   rpsVars, mmVars>>

\* the callback at position i is due and no callback of the same delay, set
\* before it, is still waiting
Due(i) ==
    /\ timers[i].rem = 0
    /\ \A j \in 1..(i - 1) : ~(timers[j].rem = 0 /\ timers[j].kind = timers[i].kind)

\* determineWinner with the two results for a winning choice swapped
determineWinnerSwapped(p, c) ==
    IF p = c THEN "tie"
    ELSE IF \/ p = "rock" /\ c = "scissors"
            \/ p = "scissors" /\ c = "paper"
            \/ p = "paper" /\ c = "rock"
    THEN "computer"
    ELSE "player"

determineWinner(p, c) ==
    IF p = c THEN "tie"
    ELSE IF \/ p = "rock" /\ c = "scissors"
            \/ p = "scissors" /\ c = "paper"
            \/ p = "paper" /\ c = "rock"
    THEN "player"
    ELSE "computer"

\* a final score without the base score, the bonus taken from the higher
\* of the two scores
calculateFinalScoreNoBase(winner, ps, cs) ==
    (WINNING_SCORE - Max(ps, cs)) * 100 + ps * 50

calculateFinalScore(winner, ps, cs) ==
    (IF winner = "player" THEN 1000 ELSE 100)
    + (WINNING_SCORE - Min(ps, cs)) * 100
    + ps * 50

\* startGame() of the rock-paper-scissors script
rpsStartGame ==
    /\ ops' = ops + 1
    /\ playerScore' = 0
    /\ computerScore' = 0
    /\ currentRound' = 1
    /\ gameStarted' = TRUE
    /\ gameEnded' = FALSE
    /\ playerChoice' = NoChoice
    /\ computerChoice' = NoChoice
    /\ controlsShown' = FALSE
    /\ choicesDisabled' = FALSE
    /\ nTies' = 0

\* handleSetName()
RPSHandleSetName(typed, date) ==
    /\ nameSectionShown
    /\ UNCHANGED <<timers, ngVars, mmVars, nChoices>>
    /\ LET name == Trim(typed) IN
       IF Len(name) = 0 \/ Len(name) > PageNameLen
          \/ setCurrentUserCheck(name) # "ok"
       THEN /\ lastCall' = [op |-> "handleSetName", result |-> "rejected",
                            typed |-> typed, threw |-> FALSE]
            /\ UNCHANGED <<storeVars, ops, pageVars, histVars, playerScore,
                           computerScore, currentRound, playerChoice,
                           computerChoice, choicesDisabled, nTies>>
       ELSE /\ currentUser' = NewUser(name, date)
            /\ lsUser' = saveUserData(currentUser', gameScores).user
            /\ lsScores' = saveUserData(currentUser', gameScores).scores
            /\ nameSectionShown' = FALSE
            /\ rpsStartGame
            /\ lastCall' = [op |-> "handleSetName", result |-> "started",
                            typed |-> typed, threw |-> FALSE]
            /\ UNCHANGED <<gameScores, lsAvailable, histVars>>

\* click on a choice button: the listener, then handlePlayerChoice(choice)
RPSChoiceClick(choice) ==
    /\ ~choicesDisabled
    /\ nChoices < MaxChoices
    /\ UNCHANGED <<storeVars, ops, pageVars, histVars, ngVars, mmVars,
                   playerScore, computerScore, currentRound, computerChoice,
                   nTies>>
    /\ IF gameEnded
       THEN /\ lastCall' = [op |-> "choice", result |-> "ignored",
                            threw |-> FALSE, choice |-> choice]
            /\ UNCHANGED <<timers, playerChoice, choicesDisabled, nChoices>>
       ELSE /\ playerChoice' = choice
            /\ choicesDisabled' = TRUE
            /\ nChoices' = nChoices + 1
            /\ timers' = Append(timers, [kind |-> "computerMove", rem |-> 1,
                                         game |-> ops])
            /\ lastCall' = [op |-> "choice", result |-> "accepted",
                            threw |-> FALSE, choice |-> choice]

\* the callback of handlePlayerChoice: getComputerChoice(), then playRound()
playRound(i, c) ==
    LET roundWinner == determineWinner(playerChoice, c) IN
    /\ computerChoice' = c
    /\ playerScore' = IF roundWinner = "player" THEN playerScore + 1
                      ELSE playerScore
    /\ computerScore' = IF roundWinner = "computer" THEN computerScore + 1
                        ELSE computerScore
    /\ timers' = Append(RemoveAt(timers, i),
                        [kind |-> "winnerCheck", rem |-> 2,
                         game |-> timers[i].game, outcome |-> roundWinner])
    /\ nTies' = IF roundWinner = "tie" THEN nTies + 1 ELSE nTies
    /\ lastCall' = [op |-> "playRound", result |-> roundWinner,
                    threw |-> FALSE, stale |-> timers[i].game # ops]
    /\ UNCHANGED <<storeVars, ops, pageVars, histVars, currentRound,
                   playerChoice, choicesDisabled, nChoices>>

\* endGame(winner)
endGame(winner, date) ==
    /\ gameEnded' = TRUE
    /\ nCompleted' = IF gameEnded THEN nCompleted ELSE nCompleted + 1
    /\ recordGame("rockPaperScissors",
                  calculateFinalScore(winner, playerScore, computerScore), date,
                  [playerScore |-> playerScore, computerScore |-> computerScore,
                   rounds |-> currentRound, winner |-> winner])
    /\ controlsShown' = TRUE
    /\ UNCHANGED <<lsAvailable, gameStarted, nameSectionShown, currentRound,
                   choicesDisabled>>

\* a checkGameWinner() that leaves the choice buttons disabled
checkGameWinnerKeepingDisabled(i) ==
    /\ timers' = RemoveAt(timers, i)
    /\ UNCHANGED <<ops, playerScore, computerScore, playerChoice,
                   computerChoice, nChoices, nTies>>
    /\ IF playerScore >= WINNING_SCORE \/ computerScore >= WINNING_SCORE
       THEN \E d \in PageDates :
            LET winner == IF playerScore >= WINNING_SCORE
                          THEN "player" ELSE "computer" IN
            /\ endGame(winner, d)
            /\ lastCall' = [op |-> "checkGameWinner", result |-> winner,
                            threw |-> pageCreateLeaderboard(0) = "RangeError",
                            stale |-> timers[i].game # ops, date |-> d]
       ELSE /\ currentRound' = currentRound + 1
            /\ choicesDisabled' = choicesDisabled
            /\ lastCall' = [op |-> "checkGameWinner", result |-> "next",
                            threw |-> FALSE, stale |-> timers[i].game # ops]
            /\ UNCHANGED <<storeVars, pageVars, histVars>>

\* the callback of playRound: checkGameWinner()
checkGameWinner(i) ==
    /\ timers' = RemoveAt(timers, i)
    /\ UNCHANGED <<ops, playerScore, computerScore, playerChoice,
                   computerChoice, nChoices, nTies>>
    /\ IF playerScore >= WINNING_SCORE
       THEN \E d \in PageDates :
            /\ endGame("player", d)
            /\ lastCall' = [op |-> "checkGameWinner", result |-> "player",
                            threw |-> pageCreateLeaderboard(0) = "RangeError",
                            stale |-> timers[i].game # ops, date |-> d]
       ELSE IF computerScore >= WINNING_SCORE
       THEN \E d \in PageDates :
            /\ endGame("computer", d)
            /\ lastCall' = [op |-> "checkGameWinner", result |-> "computer",
                            threw |-> pageCreateLeaderboard(0) = "RangeError",
                            stale |-> timers[i].game # ops, date |-> d]
       ELSE /\ currentRound' = currentRound + 1
            /\ choicesDisabled' = FALSE
            /\ lastCall' = [op |-> "checkGameWinner", result |-> "next",
                            threw |-> FALSE, stale |-> timers[i].game # ops]
            /\ UNCHANGED <<storeVars, pageVars, histVars>>

\* a due callback of the page runs
RPSTimerFire(i) ==
    /\ Due(i)
    /\ UNCHANGED <<ngVars, mmVars>>
    /\ IF timers[i].kind = "computerMove"
       THEN \E c \in CHOICES : playRound(i, c)
       ELSE checkGameWinner(i)

\* startNewGame(): the New Game button sits in the game controls
RPSStartNewGame ==
    /\ controlsShown
    /\ rpsStartGame
    /\ lastCall' = [op |-> "startNewGame", result |-> "started", threw |-> FALSE]
    /\ UNCHANGED <<storeVars, histVars, nameSectionShown, timers, ngVars,
                   mmVars, nChoices>>

\* the page after both scripts' DOMContentLoaded handlers
InitRPS ==
    /\ lsAvailable = TRUE
    /\ lsUser \in {NoItem, JSONstringify(SeedUser)}
    /\ lsScores = NoItem
    /\ currentUser = loadUserData(Null, EmptyScores).user
    /\ gameScores = loadUserData(Null, EmptyScores).scores
    /\ lastCall = [op |-> "DOMContentLoaded", result |-> "loaded",
                   threw |-> pageCreateLeaderboard(0) = "RangeError"]
    /\ nSaves = 0 /\ nIncs = 0 /\ nCompleted = 0
    /\ gameEnded = FALSE
    /\ controlsShown = FALSE
    /\ timers = <<>>
    /\ RPSDeclared
    /\ NGDeclared
    /\ MMDeclared
    /\ IF currentUser # Null
       THEN gameStarted = TRUE /\ nameSectionShown = FALSE /\ ops = 1
       ELSE gameStarted = FALSE /\ nameSectionShown = TRUE /\ ops = 0

NextRPS ==
    \/ \E typed \in PageNameInputs, d \in PageDates : RPSHandleSetName(typed, d)
    \/ \E choice \in CHOICES : RPSChoiceClick(choice)
    \/ Tick
    \/ \E i \in DOMAIN timers : RPSTimerFire(i)
    \/ RPSStartNewGame

SpecRPS == InitRPS /\ [][NextRPS]_vars

\* choices handled per run of the page when its timers are followed to the end
MaxFairChoices == 4

NextRPSFair ==
    \/ \E typed \in PageNameInputs, d \in PageDates : RPSHandleSetName(typed, d)
    \/ \E choice \in CHOICES : nChoices < MaxFairChoices /\ RPSChoiceClick(choice)
    \/ Tick
    \/ \E i \in DOMAIN timers : RPSTimerFire(i)
    \/ RPSStartNewGame

\* the page with its timers: a second that can pass does pass, and a callback
\* whose delay has elapsed is run by the event loop
SpecRPSFair ==
    /\ InitRPS
    /\ [][NextRPSFair]_vars
    /\ WF_vars(Tick)
    /\ WF_vars(\E i \in DOMAIN timers : RPSTimerFire(i))


----------------------------------------------------------------------------
(* Rock-paper-scissors: claims *)

rpsBoard == getLeaderboard(gameScores, "rockPaperScissors")

\* the last step was a winner check that ended the game
rpsJustEnded ==
    /\ lastCall.op = "checkGameWinner"
    /\ lastCall.result \in {"player", "computer"}

\* the callback at position i belongs to a choice handled before the latest
\* startGame() and runs in this step
StaleFire(i) == timers[i].game # ops /\ RPSTimerFire(i)

(* C3: starting a rock-paper-scissors game (new game or name submission)   *)
(* while a computer-move or winner-check timer of an earlier choice is     *)
(* pending invalidates that timer: when the stale callback runs it changes *)
(* neither score, nor the round number, nor the ended flag.                *)
C3_Original ==
    [][\A i \in DOMAIN timers :
          StaleFire(i) =>
              UNCHANGED <<playerScore, computerScore, currentRound, gameEnded>>]_vars

(* C9: a rock-paper-scissors game ends exactly when one side's score       *)
(* reaches 3: both scores are at most 3 and never both 3, the game ends as *)
(* PlayerWon iff the player reached 3, and no round is played once a score *)
(* has reached 3.                                                          *)
C9_Original ==
    /\ [](/\ playerScore <= WINNING_SCORE
          /\ computerScore <= WINNING_SCORE
          /\ ~(playerScore = WINNING_SCORE /\ computerScore = WINNING_SCORE)
          /\ gameEnded =>
                 (playerScore = WINNING_SCORE \/ computerScore = WINNING_SCORE)
          /\ rpsJustEnded =>
                 (lastCall.result = "player" <=> playerScore = WINNING_SCORE))
    /\ [][lastCall'.op = "playRound" /\ timers' # timers =>
              playerScore < WINNING_SCORE /\ computerScore < WINNING_SCORE]_vars

(* C10: when a rock-paper-scissors game reaches the win threshold exactly  *)
(* one score entry is recorded and games-played is incremented exactly     *)
(* once, whether the player won or lost, and the recorded score is         *)
(* (1000 if the player won else 100) + (3 - min(playerScore,               *)
(* computerScore)) * 100 + playerScore * 50.                               *)
C10_Original ==
    rpsJustEnded =>
        /\ nSaves = nCompleted
        /\ nIncs = nCompleted
        /\ \E k \in DOMAIN rpsBoard :
              /\ rpsBoard[k].date = lastCall.date
              /\ rpsBoard[k].winner = lastCall.result
              /\ rpsBoard[k].score =
                     (IF lastCall.result = "player" THEN 1000 ELSE 100)
                     + (3 - Min(playerScore, computerScore)) * 100
                     + playerScore * 50

\* the pairs (winner's choice, loser's choice) of the winner rule
Beats == {<<"rock", "scissors">>, <<"scissors", "paper">>, <<"paper", "rock">>}

\* the result with the two sides exchanged
Swapped(result) ==
    CASE result = "player" -> "computer"
      [] result = "computer" -> "player"
      [] OTHER -> result

(* C11: for all p, c in {rock, paper, scissors}, determineWinner(p, c) is  *)
(* tie iff p = c, player iff (p, c) is (rock, scissors), (scissors, paper) *)
(* or (paper, rock), and computer otherwise; swapping the two choices      *)
(* swaps player and computer.                                              *)
C11_DetermineWinner ==
    (lastCall.op = "playRound" /\ playerChoice \in CHOICES) =>
        /\ lastCall.result \in {"tie", "player", "computer"}
        /\ lastCall.result = "tie" <=> playerChoice = computerChoice
        /\ lastCall.result = "player" <=> <<playerChoice, computerChoice>> \in Beats
        /\ lastCall.result = "computer" <=>
               (playerChoice # computerChoice
                /\ <<playerChoice, computerChoice>> \notin Beats)
        /\ determineWinner(computerChoice, playerChoice) = Swapped(lastCall.result)

\* a round of paper against rock has just been decided for the player
C11_Witness ==
    /\ lastCall.op = "playRound"
    /\ playerChoice = "paper"
    /\ computerChoice = "rock"
    /\ lastCall.result = "player"

\* the winner check at position i, set by a tied round, runs in this step
TiedRoundCheck(i) ==
    /\ timers[i].kind = "winnerCheck"
    /\ timers[i].outcome = "tie"
    /\ RPSTimerFire(i)

\* the computer move at position i runs in this step and the round is a tie
TiedRound(i) ==
    /\ timers[i].kind = "computerMove"
    /\ RPSTimerFire(i)
    /\ lastCall'.result = "tie"

(* C12: a tied rock-paper-scissors round (equal choices) leaves both       *)
(* scores unchanged and still advances the round number by one.            *)
C12_Original ==
    [][\A i \in DOMAIN timers :
          /\ TiedRound(i) => UNCHANGED <<playerScore, computerScore>>
          /\ TiedRoundCheck(i) =>
                 /\ UNCHANGED <<playerScore, computerScore>>
                 /\ currentRound' = currentRound + 1]_vars

----------------------------------------------------------------------------
(* Memory match page                                                       *)
(*                                                                         *)
(* The Start Game and New Game buttons are hidden until the script shows   *)
(* them.  The page's DOMContentLoaded handler calls createLeaderboard()    *)
(* before initializeGameGrid(); the grid is therefore first built by       *)
(* startNewGame().  An entry of flippedCards refers to a card element and  *)
(* a card object: it is modelled by the grid it belongs to (the number of  *)
(* grids built so far, kept in ops), the card's index and its symbol.      *)

\* grids built per run of the memory match page
MaxGamesMM == 2

\* cards turned face-up per run of the memory match page
MaxFlips == 8

TOTAL_PAIRS == 4

\* CARD_SYMBOLS[0..3], the four symbols initializeGameGrid uses
CARD_SYMBOLS == <<"target", "star", "palette", "tent">>

\* cardData of initializeGameGrid, in push order
cardData ==
    [k \in 1..(2 * TOTAL_PAIRS) |->
        [id |-> k - 1, symbol |-> CARD_SYMBOLS[((k - 1) \div 2) + 1],
         matched |-> FALSE]]

\* the sequence a with the elements at positions i and j exchanged
Swap(a, i, j) == [a EXCEPT ![i] = a[j], ![j] = a[i]]

\* the loop of shuffleArray from index i (0-based) down to 1; draws[i] is the
\* value of Math.floor(Math.random() * (i + 1)) in the round for index i
RECURSIVE shuffleLoop(_, _, _)
shuffleLoop(shuffled, i, draws) ==
    IF i <= 0 THEN shuffled
    ELSE shuffleLoop(Swap(shuffled, i + 1, draws[i] + 1), i - 1, draws)

\* shuffleArray(array) for one outcome of the random draws
shuffleArray(array, draws) == shuffleLoop(array, Len(array) - 1, draws)

\* outcomes of the seven random draws of one shuffle of eight cards
DrawSamples ==
    {[i \in 1..7 |-> i], [i \in 1..7 |-> i \div 2]}

\* seconds a finished game took
MMTimeSamples == {20, 200}

\* calculateFinalScore(timeTaken) without the perfect-game bonus
calculateFinalScoreNoBonus(timeTaken, moves) ==
    1000 + Max(0, 500 - (moves - TOTAL_PAIRS) * 25) + Max(0, 500 - timeTaken * 5)

\* calculateFinalScore(timeTaken) of the memory match script
mmCalculateFinalScore(timeTaken, moves) ==
    (IF moves = TOTAL_PAIRS THEN 2000 ELSE 1000)
    + Max(0, 500 - (moves - TOTAL_PAIRS) * 25)
    + Max(0, 500 - timeTaken * 5)

\* handleSetName() of the memory match script
MMHandleSetName(typed, date) ==
    /\ nameSectionShown
    /\ UNCHANGED <<timers, ngVars, rpsVars, ops, histVars, gameStarted,
                   gameEnded, controlsShown, cards, flippedCards, matchedPairs,
                   moveCount, elFlipped, elMatched, elDisabled, newBtnShown,
                   nFlips>>
    /\ LET name == Trim(typed) IN
       IF Len(name) = 0 \/ Len(name) > PageNameLen
          \/ setCurrentUserCheck(name) # "ok"
       THEN /\ lastCall' = [op |-> "handleSetName", result |-> "rejected",
                            typed |-> typed, threw |-> pageShowMessage(0) = "RangeError"]
            /\ UNCHANGED <<storeVars, nameSectionShown, startBtnShown>>
       ELSE /\ currentUser' = NewUser(name, date)
            /\ lsUser' = saveUserData(currentUser', gameScores).user
            /\ lsScores' = saveUserData(currentUser', gameScores).scores
            /\ nameSectionShown' = FALSE
            /\ startBtnShown' = TRUE
            /\ lastCall' = [op |-> "handleSetName", result |-> "set",
                            typed |-> typed, threw |-> FALSE]
            /\ UNCHANGED <<gameScores, lsAvailable>>

\* a startGame() that leaves the face-up list alone
MMStartGameKeepingFlipped ==
    /\ startBtnShown
    /\ flippedCards' = flippedCards
    /\ matchedPairs' = 0
    /\ moveCount' = 0
    /\ gameStarted' = TRUE
    /\ gameEnded' = FALSE
    /\ cards' = [k \in DOMAIN cards |-> [cards[k] EXCEPT !.matched = FALSE]]
    /\ elFlipped' = {}
    /\ elMatched' = {}
    /\ elDisabled' = {}
    /\ startBtnShown' = FALSE
    /\ newBtnShown' = TRUE
    /\ lastCall' = [op |-> "startGame", result |-> "started", threw |-> FALSE]
    /\ UNCHANGED <<storeVars, ops, histVars, nameSectionShown, controlsShown,
                   timers, ngVars, rpsVars, nFlips>>

\* startGame(), run by a click on the Start Game button
MMStartGame ==
    /\ startBtnShown
    /\ flippedCards' = <<>>
    /\ matchedPairs' = 0
    /\ moveCount' = 0
    /\ gameStarted' = TRUE
    /\ gameEnded' = FALSE
    /\ cards' = [k \in DOMAIN cards |-> [cards[k] EXCEPT !.matched = FALSE]]
    /\ elFlipped' = {}
    /\ elMatched' = {}
    /\ elDisabled' = {}
    /\ startBtnShown' = FALSE
    /\ newBtnShown' = TRUE
    /\ lastCall' = [op |-> "startGame", result |-> "started", threw |-> FALSE]
    /\ UNCHANGED <<storeVars, ops, histVars, nameSectionShown, controlsShown,
                   timers, ngVars, rpsVars, nFlips>>

\* startNewGame(), run by a click on the New Game button
MMStartNewGame ==
    /\ newBtnShown
    /\ ops < MaxGamesMM
    /\ ops' = ops + 1
    /\ gameStarted' = FALSE
    /\ gameEnded' = FALSE
    /\ newBtnShown' = FALSE
    /\ startBtnShown' = TRUE
    /\ \E draws \in DrawSamples : cards' = shuffleArray(cardData, draws)
    /\ elFlipped' = {}
    /\ elMatched' = {}
    /\ elDisabled' = {}
    /\ moveCount' = 0
    /\ matchedPairs' = 0
    /\ lastCall' = [op |-> "startNewGame", result |-> "reset", threw |-> FALSE]
    /\ UNCHANGED <<storeVars, histVars, nameSectionShown, controlsShown,
                   timers, flippedCards, ngVars, rpsVars, nFlips>>

\* disableAllCards(), given the flipped and matched classes
disableAllCards(flipped, matched, disabled) ==
    disabled \cup {k \in DOMAIN cards : k \notin flipped /\ k \notin matched}

\* enableAllCards(), given the matched classes
enableAllCards(matched, disabled) == disabled \cap matched

\* the tests of handleCardClick looking at the matched class only
selectableUnlessMatched(index) == index \notin elMatched

\* the tests of handleCardClick without the disabled class and the limit of
\* two flipped cards
selectableIgnoringPending(index) ==
    index \notin elFlipped /\ index \notin elMatched

\* the tests handleCardClick makes of the clicked element and of
\* flippedCards before it flips the card
selectable(index) ==
    /\ index \notin elFlipped
    /\ index \notin elMatched
    /\ index \notin elDisabled
    /\ Len(flippedCards) < 2

\* click on the card element at position index of the grid: the listener,
\* then handleCardClick(cardElement)
MMCardClick(index) ==
    /\ index \in DOMAIN cards
    /\ nFlips < MaxFlips
    /\ UNCHANGED <<storeVars, ops, pageVars, histVars, ngVars, rpsVars, cards,
                   matchedPairs, elMatched, startBtnShown, newBtnShown>>
    /\ IF ~gameStarted \/ gameEnded
       THEN /\ lastCall' = [op |-> "cardClick", result |-> "inactive",
                            threw |-> FALSE]
            /\ UNCHANGED <<timers, flippedCards, moveCount, elFlipped,
                           elDisabled, nFlips>>
       ELSE IF ~selectable(index)
       THEN /\ lastCall' = [op |-> "cardClick", result |-> "rejected",
                            threw |-> FALSE]
            /\ UNCHANGED <<timers, flippedCards, moveCount, elFlipped,
                           elDisabled, nFlips>>
       ELSE /\ elFlipped' = elFlipped \cup {index}
            /\ nFlips' = nFlips + 1
            /\ flippedCards' = Append(flippedCards,
                                      [grid |-> ops, index |-> index,
                                       symbol |-> cards[index].symbol])
            /\ lastCall' = [op |-> "cardClick", result |-> "flipped",
                            threw |-> FALSE]
            /\ IF Len(flippedCards') = 2
               THEN /\ moveCount' = moveCount + 1
                    /\ elDisabled' = disableAllCards(elFlipped', elMatched,
                                                     elDisabled)
                    /\ timers' = Append(timers, [kind |-> "checkForMatch",
                                                 rem |-> 1, game |-> ops])
               ELSE UNCHANGED <<moveCount, elDisabled, timers>>

\* the positions of the current grid among the two cards being compared
onGrid(card1, card2) ==
    {c.index : c \in {x \in {card1, card2} : x.grid = ops}}

\* endGame() of the memory match script
mmEndGame(timeTaken, date) ==
    /\ gameEnded' = TRUE
    /\ nCompleted' = IF gameEnded THEN nCompleted ELSE nCompleted + 1
    /\ recordGame("memoryGame", mmCalculateFinalScore(timeTaken, moveCount),
                  date,
                  [moves |-> moveCount, time |-> timeTaken,
                   pairs |-> TOTAL_PAIRS])
    /\ UNCHANGED <<lsAvailable, gameStarted, nameSectionShown, controlsShown>>

\* handleMatch(card1, card2), then the rest of checkForMatch if control
\* returns to it
handleMatch(card1, card2) ==
    /\ elMatched' = elMatched \cup onGrid(card1, card2)
    /\ cards' = [k \in DOMAIN cards |->
                    IF k \in onGrid(card1, card2)
                    THEN [cards[k] EXCEPT !.matched = TRUE] ELSE cards[k]]
    /\ matchedPairs' = matchedPairs + 1
    /\ UNCHANGED elFlipped
    /\ IF matchedPairs' = TOTAL_PAIRS
       THEN \E t \in MMTimeSamples, d \in PageDates :
            LET thrown == \/ pageCreateLeaderboard(0) = "RangeError"
                          \/ pageShowMessage(0) = "RangeError" IN
            /\ mmEndGame(t, d)
            /\ flippedCards' = IF thrown THEN flippedCards ELSE <<>>
            /\ lastCall' = [op |-> "checkForMatch", result |-> "complete",
                            threw |-> thrown, time |-> t, date |-> d]
            /\ UNCHANGED elDisabled
       ELSE /\ elDisabled' = enableAllCards(elMatched', elDisabled)
            /\ flippedCards' = <<>>
            /\ lastCall' = [op |-> "checkForMatch", result |-> "match",
                            threw |-> FALSE]
            /\ UNCHANGED <<storeVars, pageVars, histVars>>

\* handleNoMatch(card1, card2), then the rest of checkForMatch
handleNoMatch(card1, card2) ==
    /\ elFlipped' = elFlipped \ onGrid(card1, card2)
    /\ elDisabled' = enableAllCards(elMatched, elDisabled)
    /\ flippedCards' = <<>>
    /\ lastCall' = [op |-> "checkForMatch", result |-> "no match",
                    threw |-> FALSE]
    /\ UNCHANGED <<storeVars, pageVars, histVars, cards, matchedPairs, elMatched>>

\* checkForMatch taking every pair for a match
checkForMatchAlways(card1, card2) == handleMatch(card1, card2)

\* checkForMatch(): the comparison of the two cards
checkForMatch(card1, card2) ==
    IF card1.symbol = card2.symbol
    THEN handleMatch(card1, card2)
    ELSE handleNoMatch(card1, card2)

\* a due callback of handleCardClick runs: checkForMatch() inside its try
MMTimerFire(i) ==
    /\ Due(i)
    /\ timers' = RemoveAt(timers, i)
    /\ UNCHANGED <<ops, ngVars, rpsVars, moveCount, startBtnShown, newBtnShown,
                   nFlips>>
    /\ IF Len(flippedCards) < 2
       THEN /\ lastCall' = [op |-> "checkForMatch", result |-> "TypeError",
                            threw |-> TRUE]
            /\ UNCHANGED <<storeVars, pageVars, histVars, cards, flippedCards,
                           matchedPairs, elFlipped, elMatched, elDisabled>>
       ELSE checkForMatch(flippedCards[1], flippedCards[2])

\* the page after both scripts' DOMContentLoaded handlers
InitMM ==
    /\ lsAvailable = TRUE
    /\ lsUser \in {NoItem, JSONstringify(SeedUser)}
    /\ lsScores = NoItem
    /\ currentUser = loadUserData(Null, EmptyScores).user
    /\ gameScores = loadUserData(Null, EmptyScores).scores
    /\ lastCall = [op |-> "DOMContentLoaded", result |-> "loaded",
                   threw |-> pageCreateLeaderboard(0) = "RangeError"]
    /\ ops = 0
    /\ timers = <<>>
    /\ gameStarted = FALSE /\ gameEnded = FALSE /\ controlsShown = FALSE
    /\ nSaves = 0 /\ nIncs = 0 /\ nCompleted = 0
    /\ NGDeclared
    /\ RPSDeclared
    /\ cards = IF pageCreateLeaderboard(0) = "returned"
               THEN shuffleArray(cardData, [i \in 1..7 |-> i]) ELSE <<>>
    /\ flippedCards = <<>>
    /\ matchedPairs = 0 /\ moveCount = 0
    /\ elFlipped = {} /\ elMatched = {} /\ elDisabled = {}
    /\ newBtnShown = FALSE
    /\ nFlips = 0
    /\ nameSectionShown = (currentUser = Null)
    /\ startBtnShown = (currentUser # Null)

NextMM ==
    \/ \E typed \in PageNameInputs, d \in PageDates : MMHandleSetName(typed, d)
    \/ MMStartGame
    \/ MMStartNewGame
    \/ \E index \in 1..(2 * TOTAL_PAIRS) : MMCardClick(index)
    \/ Tick
    \/ \E i \in DOMAIN timers : MMTimerFire(i)

SpecMM == InitMM /\ [][NextMM]_vars

----------------------------------------------------------------------------
(* Memory match: claims *)

\* the comparison at position i belongs to a pair selected before the
\* latest startNewGame() and runs in this step
StaleCompare(i) == timers[i].game # ops /\ MMTimerFire(i)

(* C2: in memory match a new-game action taken while a pair's delayed      *)
(* comparison is pending invalidates that timer: when the stale callback   *)
(* runs it changes neither matchedPairs, nor the matched flags, nor the    *)
(* set of face-up cards, nor the started/ended status.                     *)
C2_Original ==
    [][\A i \in DOMAIN timers :
          StaleCompare(i) =>
              UNCHANGED <<matchedPairs, cards, elMatched, elFlipped,
                          gameStarted, gameEnded>>]_vars

----------------------------------------------------------------------------
(* C1: after any sequence of saveScore calls every game's leaderboard has  *)
(* at most 10 entries and is sorted non-increasing by score.               *)
C1_LeaderboardBounded ==
    \A g \in GameNames :
        /\ Len(getLeaderboard(gameScores, g)) <= TopN
        /\ SortedDesc(getLeaderboard(gameScores, g))

\* a save into a list that already held 10 entries has happened
C1_Witness ==
    /\ lastCall.op = "saveGameScore"
    /\ Len(gameScores["numberGuessing"]) = TopN
    /\ lastCall.entry.score = 250
    /\ gameScores["numberGuessing"][1] = lastCall.entry

----------------------------------------------------------------------------
(* Memory match: selection rule *)

\* a card of the grid is clicked in this step: the last call is then a card
\* click, and the only other step that leaves a card click as the last call
\* is the passing of a second
ClickStep == lastCall'.op = "cardClick" /\ ~Tick

\* the card at position index is the one clicked in this step; a click that
\* turns a card face-up puts that card last in flippedCards
ClickOn(index) ==
    /\ ClickStep
    /\ lastCall'.result = "flipped" =>
           flippedCards'[Len(flippedCards')].index = index

\* the round state of memory match and everything a handler may record
mmRound == <<cards, flippedCards, matchedPairs, moveCount, elFlipped,
             elMatched, elDisabled, timers, gameStarted, gameEnded,
             storeVars, histVars>>

(* C13: in memory match at most 2 cards are face-up awaiting resolution in *)
(* every reachable state; selecting a third card while two await           *)
(* resolution is rejected with no state change.                            *)
C13_AtMostTwoFaceUp ==
    /\ [](/\ Len(flippedCards) <= 2
          /\ Cardinality(elFlipped \ elMatched) <= 2)
    /\ [][(Len(flippedCards) = 2 /\ ClickStep) =>
              (lastCall'.result # "flipped" /\ UNCHANGED mmRound)]_vars

\* a card was clicked and rejected while two cards of the grid await their
\* comparison
C13_Witness ==
    /\ lastCall.op = "cardClick"
    /\ lastCall.result = "rejected"
    /\ Len(flippedCards) = 2
    /\ Cardinality(elFlipped \ elMatched) = 2
    /\ timers # <<>>

(* C14: in memory match, selecting a card that is already matched or       *)
(* already face-up changes nothing: moveCount, matchedPairs, the set of    *)
(* face-up cards and the matched flags are unchanged, however many times   *)
(* the selection is repeated.                                              *)
C14_RepeatedSelection ==
    [][\A index \in DOMAIN cards :
          ((index \in elMatched \/ index \in elFlipped) /\ ClickOn(index)) =>
              (lastCall'.result # "flipped" /\ UNCHANGED mmRound)]_vars

\* a click was rejected in a started game with a matched pair on the grid,
\* no card awaiting comparison and no card disabled: the clicked card was a
\* matched one
C14_Witness ==
    /\ lastCall.op = "cardClick"
    /\ lastCall.result = "rejected"
    /\ gameStarted /\ ~gameEnded
    /\ elMatched # {}
    /\ elFlipped = elMatched
    /\ flippedCards = <<>>
    /\ elDisabled = {}

----------------------------------------------------------------------------
(* Memory match: moves, comparisons and completion *)

\* a delayed comparison runs in this step
CompareStep == lastCall'.op = "checkForMatch" /\ ~Tick

\* the cards of the pair being compared that lie on the current grid
comparedOnGrid == onGrid(flippedCards[1], flippedCards[2])

(* C15: the second selection of a pair increments moveCount by exactly 1   *)
(* at selection time; when the delayed comparison runs, equal symbols flag *)
(* both cards matched for the rest of that game and increment matchedPairs *)
(* by 1, different symbols return both cards face-down and leave           *)
(* matchedPairs unchanged; in both cases no card is left awaiting          *)
(* resolution.                                                             *)
C15_Original ==
    [][/\ ClickStep =>
              moveCount' = IF lastCall'.result = "flipped" /\ Len(flippedCards) = 1
                           THEN moveCount + 1 ELSE moveCount
       /\ (CompareStep /\ Len(flippedCards) = 2
           /\ flippedCards[1].symbol = flippedCards[2].symbol) =>
              /\ matchedPairs' = matchedPairs + 1
              /\ comparedOnGrid \subseteq elMatched'
              /\ \A k \in comparedOnGrid : cards'[k].matched
              /\ flippedCards' = <<>>
       /\ (CompareStep /\ Len(flippedCards) = 2
           /\ flippedCards[1].symbol # flippedCards[2].symbol) =>
              /\ matchedPairs' = matchedPairs
              /\ comparedOnGrid \cap elFlipped' = {}
              /\ flippedCards' = <<>>
       /\ (ClickStep \/ CompareStep) => elMatched \subseteq elMatched']_vars

mmBoard == getLeaderboard(gameScores, "memoryGame")

\* the last step was the comparison that completed the game
mmJustCompleted ==
    lastCall.op = "checkForMatch" /\ lastCall.result = "complete"

(* C16: memory match completes exactly when matchedPairs reaches 4; at     *)
(* that point exactly one score entry is recorded and games-played is      *)
(* incremented exactly once, with score = 1000 + max(0, 500 - (moves - 4)  *)
(* * 25) + max(0, 500 - elapsedSeconds * 5), plus 1000 when moves = 4; no  *)
(* card selection is accepted afterwards until a new game is started.      *)
C16_Original ==
    /\ [](/\ gameEnded <=> matchedPairs = TOTAL_PAIRS
          /\ mmJustCompleted =>
                 /\ nSaves = nCompleted
                 /\ nIncs = nCompleted
                 /\ \E k \in DOMAIN mmBoard :
                        /\ mmBoard[k].moves = moveCount
                        /\ mmBoard[k].time = lastCall.time
                        /\ mmBoard[k].score =
                               1000 + Max(0, 500 - (moveCount - 4) * 25)
                               + Max(0, 500 - lastCall.time * 5)
                               + (IF moveCount = 4 THEN 1000 ELSE 0))
    /\ [][(gameEnded /\ ClickStep) =>
              (lastCall'.result # "flipped" /\ UNCHANGED mmRound)]_vars

----------------------------------------------------------------------------
(* Memory match: the board *)

\* the number of positions of b that hold the value v
Count(b, v) == Cardinality({k \in DOMAIN b : b[k] = v})

\* b holds the same elements as a, each as many times
IsPermutationOf(b, a) ==
    /\ Len(b) = Len(a)
    /\ \A k \in DOMAIN a : Count(b, a[k]) = Count(a, a[k])

\* b is a board: 8 cards with distinct ids, 2 cards of each of 4 symbols
IsBoard(b) ==
    /\ Len(b) = 2 * TOTAL_PAIRS
    /\ \A j, k \in DOMAIN b : b[j].id = b[k].id => j = k
    /\ Cardinality({b[k].symbol : k \in DOMAIN b}) = TOTAL_PAIRS
    /\ \A k \in DOMAIN b :
           Cardinality({j \in DOMAIN b : b[j].symbol = b[k].symbol}) = 2

(* C17: every memory match board is a permutation of 8 cards with distinct *)
(* ids containing exactly 2 cards of each of 4 distinct symbols, all       *)
(* unmatched at game start; shuffleArray returns a permutation of its      *)
(* input (same multiset, same length).                                     *)
C17_Original ==
    /\ gameStarted => IsBoard(cards)
    /\ lastCall.op = "startGame" =>
           (IsBoard(cards) /\ \A k \in DOMAIN cards : ~cards[k].matched)
    /\ lastCall.op = "startNewGame" => IsPermutationOf(cards, cardData)

----------------------------------------------------------------------------
(* Game pages: the leaderboard and message functions *)

\* C18: a game page's createLeaderboard() and showMessage(message, type)
\* call the shared utility once and return without calling themselves, so
\* the page's load handler finishes and every recorded game is also counted
C18_Original ==
    /\ pageCreateLeaderboard(0) = "returned"
    /\ pageShowMessage(0) = "returned"
    /\ lastCall.op = "DOMContentLoaded" => ~lastCall.threw
    /\ nIncs = nSaves

----------------------------------------------------------------------------
(* The utility: names *)

\* the names the utility accepts: 1 to 50 characters after trimming
ValidName(name) == Len(Trim(name)) \in 1..MaxNameLen

\* a page load that follows a setCurrentUser call directly
LoadAfterSetUser ==
    /\ lastCall.op = "setCurrentUser"
    /\ lastCall'.op = "loadUserData"

\* the load that follows setCurrentUser(name) gives the profile the trimmed
\* name
LoadsTrimmedName ==
    /\ currentUser' # Null
    /\ currentUser'.name = Trim(lastCall.name)

\* C19: with localStorage available, for every name whose trimmed length is
\* between 1 and 50, setCurrentUser(name) followed at once by loadUserData()
\* leaves a profile whose name is the trimmed name
C19_SetUserThenLoad ==
    [][(LoadAfterSetUser /\ ValidName(lastCall.name) /\ lsAvailable)
           => LoadsTrimmedName]_vars

\* C19 as stated: the same with localStorage available or not
C19_Original ==
    [][(LoadAfterSetUser /\ ValidName(lastCall.name))
           => LoadsTrimmedName]_vars

\* a name with surrounding blanks was set, saved and loaded back trimmed
C19_Witness ==
    /\ lastCall.op = "loadUserData"
    /\ lsAvailable
    /\ ops >= 1
    /\ currentUser # Null
    /\ currentUser.name = <<"b">>
    /\ lsUser = JSONstringify(currentUser)

\* C20: setCurrentUser(name) throws a validation error when the trimmed name
\* is empty or longer than 50 characters, and then the profile, the scores
\* and both stored records are as they were before the call
C20_Original ==
    [][(lastCall'.op = "setCurrentUser" /\ ~ValidName(lastCall'.name))
           => (lastCall'.threw /\ UNCHANGED <<currentUser, gameScores,
                                              lsUser, lsScores>>)]_vars
----------------------------------------------------------------------------
(* Game pages: the name field *)

\* a step of a page's handleSetName
SetNameStep == lastCall'.op = "handleSetName" /\ ~Tick

\* handleSetName took the typed name: it is the profile's name, trimmed
NameTaken ==
    /\ lastCall'.result # "rejected"
    /\ currentUser' # Null
    /\ currentUser'.name = Trim(lastCall'.typed)
    /\ lsUser' = JSONstringify(currentUser')

\* handleSetName refused the typed name and left the store alone
NameRefused ==
    /\ lastCall'.result = "rejected"
    /\ UNCHANGED storeVars

\* C21: a name submitted in a game page's name field is accepted and becomes
\* the profile name if and only if its trimmed length is between 1 and 20
C21_PageNameAccepted ==
    [][SetNameStep =>
          IF Len(Trim(lastCall'.typed)) \in 1..20
          THEN NameTaken ELSE NameRefused]_vars

\* C21 as stated: accepted if and only if the trimmed length is between 1
\* and 50
C21_Original ==
    [][SetNameStep =>
          IF Len(Trim(lastCall'.typed)) \in 1..MaxNameLen
          THEN NameTaken ELSE NameRefused]_vars

\* a name of exactly 20 characters was accepted
C21_Witness ==
    /\ lastCall.op = "handleSetName"
    /\ Len(lastCall.typed) = 20
    /\ currentUser # Null
    /\ currentUser.name = lastCall.typed
----------------------------------------------------------------------------
(* The utility: setCurrentUser, saveGameScore, incrementGamesPlayed *)

\* a call of setCurrentUser that returned
SetUserDone == lastCall'.op = "setCurrentUser" /\ ~lastCall'.threw

\* the profile is new, has the trimmed name and no game counted, and the
\* leaderboards are as before
ProfileReplaced ==
    /\ currentUser' # Null
    /\ currentUser'.name = Trim(lastCall'.name)
    /\ currentUser'.totalGamesPlayed = 0
    /\ DOMAIN currentUser' = {"name", "joinDate", "totalGamesPlayed"}
    /\ gameScores' = gameScores

SaveScoreStep == lastCall'.op = "saveGameScore"

\* how often entry e occurs in list
Occurrences(list, e) == Cardinality({k \in 1..Len(list) : list[k] = e})

\* kept holds the TopN highest-scoring entries of all (all of them when
\* there are at most TopN)
HighestOf(kept, all) ==
    /\ Len(kept) = Min(Len(all), TopN)
    /\ \A k \in 1..Len(kept) : \E m \in 1..Len(all) : kept[k] = all[m]
    /\ \A m \in 1..Len(all) :
          /\ Occurrences(kept, all[m]) <= Occurrences(all, all[m])
          /\ Occurrences(kept, all[m]) < Occurrences(all, all[m])
                => \A k \in 1..Len(kept) : kept[k].score >= all[m].score

\* the returned entry carries the caller's name and the score passed in
EntryAsGiven ==
    /\ lastCall'.entry.player =
           (IF currentUser # Null THEN currentUser.name ELSE Anonymous)
    /\ lastCall'.entry.score = lastCall'.score

\* the game's leaderboard after the call is the top ten of the previous list
\* plus the returned entry
BoardIsTopTen ==
    HighestOf(gameScores'[lastCall'.gameName],
              Append(gameScores[lastCall'.gameName], lastCall'.entry))

\* C23: saveGameScore(gameName, score, additionalData) returns an entry whose
\* player is the current user's name, or "Anonymous" without a user, and
\* whose score is the score passed in; afterwards the game's leaderboard is
\* the 10 highest-scoring entries of the previous list plus the new entry
C23_Original == [][SaveScoreStep => (EntryAsGiven /\ BoardIsTopTen)]_vars

\* a call of incrementGamesPlayed
IncrementStep == lastCall'.op = "incrementGamesPlayed"

\* the profile counts one more game and nothing else in memory changed
OneMoreGame ==
    /\ currentUser' # Null
    /\ currentUser'.totalGamesPlayed = currentUser.totalGamesPlayed + 1
    /\ currentUser'.name = currentUser.name
    /\ currentUser'.joinDate = currentUser.joinDate
    /\ gameScores' = gameScores

\* C24: without a user incrementGamesPlayed changes nothing (no profile, same
\* scores, same stored records); with a user it raises totalGamesPlayed by
\* exactly 1, leaves name, joinDate and all leaderboards unchanged and, with
\* localStorage available, the stored user record holds the new profile
C24_IncrementGamesPlayed ==
    [][IncrementStep =>
          IF currentUser = Null
          THEN UNCHANGED <<currentUser, gameScores, lsUser, lsScores>>
          ELSE /\ OneMoreGame
               /\ lsAvailable => lsUser' = JSONstringify(currentUser')]_vars

\* C24 as stated: the profile is persisted, localStorage available or not
C24_Original ==
    [][IncrementStep =>
          IF currentUser = Null
          THEN UNCHANGED <<currentUser, gameScores, lsUser, lsScores>>
          ELSE /\ OneMoreGame
               /\ lsUser' = JSONstringify(currentUser')]_vars

\* a user's first game was counted and the stored record says so
C24_Witness ==
    /\ lastCall.op = "incrementGamesPlayed"
    /\ lsAvailable
    /\ currentUser # Null
    /\ currentUser.totalGamesPlayed = 1
    /\ lsUser = JSONstringify(currentUser)

----------------------------------------------------------------------------
(* The utility: getLeaderboard and loadUserData *)

\* a call of getLeaderboard
GetStep == lastCall'.op = "getLeaderboard"

\* getLeaderboard returns the stored list of the game, the empty sequence for
\* a game without scores, and changes nothing
GetReadsOnly ==
    /\ lastCall'.result = gameScores[lastCall'.gameName]
    /\ Len(gameScores[lastCall'.gameName]) = 0 => lastCall'.result = <<>>
    /\ UNCHANGED storeVars

\* a second call for the same game right after a first returns what the
\* first returned
SameAsBefore ==
    (lastCall.op = "getLeaderboard" /\ lastCall.gameName = lastCall'.gameName)
        => lastCall'.result = lastCall.result

\* C25: getLeaderboard(gameName) changes no state and returns the empty
\* sequence for a game without scores; two calls with neither saveGameScore
\* nor loadUserData in between return the same sequence, because no other
\* call changes a leaderboard
C25_GetLeaderboard ==
    [][/\ GetStep => (GetReadsOnly /\ SameAsBefore)
       /\ (lastCall'.op \notin {"saveGameScore", "loadUserData"})
             => gameScores' = gameScores]_vars

\* C25 as stated: only saveGameScore in between can change what is returned
C25_Original ==
    [][/\ GetStep => (GetReadsOnly /\ SameAsBefore)
       /\ lastCall'.op # "saveGameScore" => gameScores' = gameScores]_vars

\* two calls in a row returned the same list of ten entries
C25_Witness ==
    /\ lastCall.op = "getLeaderboard"
    /\ lastCall.again
    /\ Len(lastCall.result) = TopN
    /\ lastCall.result = gameScores[lastCall.gameName]

\* C26: loadUserData never throws: a missing record leaves its default, and
\* a record that does not parse leaves no profile and an empty score map
C26_Original ==
    lastCall.op = "DOMContentLoaded" =>
        /\ ~lastCall.loadThrew
        /\ lsUser = NoItem => currentUser = Null
        /\ lsScores = NoItem => gameScores = EmptyScores
        /\ loadUserDataCatches =>
              (currentUser = Null /\ gameScores = EmptyScores)

\* the same of the utility on a page without a game script
LoadAloneNeverThrows ==
    lastCall.op = "loadUserData" =>
        /\ ~lastCall.threw
        /\ lsUser = NoItem => currentUser = Null
        /\ lsScores = NoItem => gameScores = EmptyScores
        /\ loadUserDataCatches =>
              (currentUser = Null /\ gameScores = EmptyScores)

----------------------------------------------------------------------------
(* The utility without localStorage *)

\* the three mutating calls
MutatingStep ==
    lastCall'.op \in {"setCurrentUser", "incrementGamesPlayed", "saveGameScore"}

\* the call returned (setCurrentUser: given a name it accepts) and did in
\* memory what it does with localStorage
DoneInMemory ==
    /\ (lastCall'.op = "setCurrentUser" => ValidName(lastCall'.name))
          => ~lastCall'.threw
    /\ (lastCall'.op = "setCurrentUser" /\ ValidName(lastCall'.name))
          => ProfileReplaced
    /\ (lastCall'.op = "incrementGamesPlayed" /\ currentUser # Null)
          => OneMoreGame
    /\ lastCall'.op = "saveGameScore" => BoardIsTopTen

\* the entry just saved is on the leaderboard getLeaderboard returns
NewEntryListed ==
    \E k \in 1..Len(getLeaderboard(gameScores', lastCall'.gameName)) :
        getLeaderboard(gameScores', lastCall'.gameName)[k] = lastCall'.entry

\* the leaderboard before the call holds ten entries that score no less
\* than the new one
OutOfTopTen ==
    /\ Len(gameScores[lastCall'.gameName]) = TopN
    /\ \A k \in 1..TopN :
          gameScores[lastCall'.gameName][k].score >= lastCall'.entry.score

----------------------------------------------------------------------------
(* The utility: write-through *)

\* a mutating call that returned and had something to write
WroteThrough ==
    /\ MutatingStep
    /\ ~lastCall'.threw
    /\ lastCall'.op = "incrementGamesPlayed" => currentUser # Null

\* the stored records are the globals
StoredIsMemory ==
    /\ lsScores' = JSONstringify(gameScores')
    /\ currentUser' # Null => lsUser' = JSONstringify(currentUser')

\* loadUserData on a fresh page gives the globals back
LoadReproduces ==
    loadUserData(Null, EmptyScores)' =
        [user |-> currentUser', scores |-> gameScores']

\* C28: with localStorage available, after every setCurrentUser,
\* incrementGamesPlayed and saveGameScore the stored scores record is the
\* score map in memory and, with a user set, the stored user record is the
\* profile in memory; loadUserData at that point gives the same globals
C28_Original ==
    [][(WroteThrough /\ lsAvailable) =>
          (StoredIsMemory /\ LoadReproduces)]_vars

----------------------------------------------------------------------------
(* Game pages: recorded scores *)

\* every entry of every leaderboard has a score that is a natural number
ScoresAreNaturals ==
    \A g \in GameNames :
        \A k \in 1..Len(gameScores[g]) : gameScores[g][k].score \in Nat

\* C29: every score entry a game records has a non-negative integer score,
\* whatever the elapsed time and the state of the round it was recorded in
C29_ScoresNonNegative == ScoresAreNaturals

\* a rock-paper-scissors game the computer won after the player had scored
\* was recorded, the quick-win bonus reduced by the player's score
C29_Witness ==
    /\ rpsJustEnded
    /\ lastCall.result = "computer"
    /\ playerScore >= 1
    /\ Len(rpsBoard) >= 1
    /\ \E k \in 1..Len(rpsBoard) :
          /\ rpsBoard[k].winner = "computer"
          /\ rpsBoard[k].score =
                 100 + (WINNING_SCORE - playerScore) * 100 + playerScore * 50

----------------------------------------------------------------------------
(* Rock paper scissors: choices outside a game *)

\* a click on a choice button
ChoiceStep == lastCall'.op = "choice" /\ ~Tick

\* the click left both scores and the round number alone and set no timer
NoRoundScheduled ==
    UNCHANGED <<playerScore, computerScore, currentRound, timers>>

\* C30: a choice made before the game has started (no user set yet) or after
\* it has ended changes neither score nor the round number and schedules no
\* round
C30_Original ==
    [][(ChoiceStep /\ (~gameStarted \/ gameEnded)) => NoRoundScheduled]_vars

\* the half of C30 about a game that has ended
ChoiceAfterEndIgnored ==
    [][(ChoiceStep /\ gameEnded) => NoRoundScheduled]_vars

----------------------------------------------------------------------------
(* Number guessing: the course of a game *)

\* startGame() ran in this step
NGStartStep ==
    \/ lastCall'.op = "startNewGame"
    \/ lastCall'.op = "handleSetName" /\ lastCall'.result = "started"

\* a submitted guess was taken as an attempt
NGAcceptedGuess ==
    /\ lastCall'.op = "handleGuess"
    /\ lastCall'.result \in {"won", "lost", "wrong"}

\* a guess was submitted with no game in progress
NGGuessOutsideGame ==
    /\ lastCall'.op = "handleGuess"
    /\ ~gameStarted \/ gameEnded

\* getRandomNumber(1, 100) is in 1..100 for every value of Math.random(), and
\* 1 and 100 both occur
SecretInRange ==
    /\ \A n \in 0..(RandomDen - 1) : getRandomNumber(1, 100, n) \in 1..100
    /\ getRandomNumber(1, 100, 0) = 1
    /\ getRandomNumber(1, 100, RandomDen - 1) = 100

\* C31: a number guessing game starts with attemptsLeft = 5 and a secret in
\* 1..100, in progress; attemptsLeft stays within 0..5 and goes down by
\* exactly 1 with every accepted guess, of which a game takes at most 5; a
\* guess submitted before a game was started or after it was won or lost
\* changes nothing
C31_GameCourse ==
    /\ SecretInRange
    /\ [](attemptsLeft \in 0..StartAttempts /\ guessNo <= StartAttempts)
    /\ [](gameStarted => (secretNumber \in 1..100
                          /\ attemptsLeft = StartAttempts - guessNo))
    /\ [][NGStartStep =>
             (attemptsLeft' = 5 /\ gameStarted' /\ ~gameEnded'
              /\ secretNumber' \in 1..100)]_vars
    /\ [][NGAcceptedGuess =>
             (/\ gameStarted /\ ~gameEnded
              /\ attemptsLeft' = attemptsLeft - 1
              /\ (lastCall'.result = "wrong" <=> ~gameEnded'))]_vars
    /\ [][NGGuessOutsideGame =>
             UNCHANGED <<storeVars, ops, pageVars, histVars, ngVars>>]_vars

\* the fifth guess of a game was accepted and no attempt is left
C31_Witness ==
    /\ lastCall.op = "handleGuess"
    /\ lastCall.result \in {"won", "lost"}
    /\ guessNo = 5
    /\ attemptsLeft = 0
    /\ gameEnded

----------------------------------------------------------------------------
(* Game pages: starting a game *)

\* startGame() of the page's script ran in this step
StartStep ==
    /\ ~Tick
    /\ \/ lastCall'.op = "startGame"
       \/ lastCall'.op = "startNewGame" /\ lastCall'.result = "started"
       \/ lastCall'.op = "handleSetName" /\ lastCall'.result = "started"

\* the round state of each game as its script declares it
RoundStateReset ==
    /\ gameStarted' /\ ~gameEnded'
    /\ attemptsLeft' = 5
    /\ playerScore' = 0 /\ computerScore' = 0 /\ currentRound' = 1
    /\ moveCount' = 0 /\ matchedPairs' = 0
    /\ flippedCards' = <<>> /\ elFlipped' = {} /\ elMatched' = {}
    /\ \A k \in DOMAIN cards' : ~cards'[k].matched

\* C32: starting a game resets the round state whatever it was before:
\* number guessing has attemptsLeft = 5 and is not ended, rock paper scissors
\* has both scores 0, round 1 and is not ended, memory match has moveCount 0,
\* matchedPairs 0, no card face up and every card unmatched; the profile, the
\* leaderboards and the stored records are unchanged, except for the name a
\* name submission sets
C32_StartResets ==
    [][StartStep =>
          /\ RoundStateReset
          /\ gameScores' = gameScores /\ lsScores' \in {lsScores, JSONstringify(gameScores)}
          /\ lastCall'.op # "handleSetName" => UNCHANGED storeVars]_vars

\* a memory match game was started over a board with matched cards and a
\* comparison still pending
C32_Witness ==
    /\ lastCall.op = "startGame"
    /\ timers # <<>>
    /\ nFlips >= 2
    /\ cards # <<>>
    /\ flippedCards = <<>>

----------------------------------------------------------------------------
(* Number guessing: the hint after a wrong guess *)

RECURSIVE Fib(_)
Fib(k) == IF k < 2 THEN k ELSE Fib(k - 1) + Fib(k - 2)

DigitSumOf(n) == (n \div 100) + ((n \div 10) % 10) + (n % 10)

HasProperDivisor(n) == \E d \in 2..(n - 1) : n % d = 0

\* what each sentence of the property list says about the number n
TrueOf(text, n) ==
    CASE text = "The number is even." -> n % 2 = 0
      [] text = "The number is odd." -> n % 2 = 1
      [] text = "The number is prime!" -> n >= 2 /\ ~HasProperDivisor(n)
      [] text = "The number is composite (not prime)." ->
             n >= 2 /\ HasProperDivisor(n)
      [] text = "The number is divisible by 3." -> n % 3 = 0
      [] text = "The number is divisible by 5." -> n % 5 = 0
      [] text = "The number is divisible by 7." -> n % 7 = 0
      [] text = "The number is divisible by 10." -> n % 10 = 0
      [] text = "The number is a perfect square!" -> \E k \in 1..10 : k * k = n
      [] text = "The number is a perfect cube!" -> \E k \in 1..5 : k * k * k = n
      [] text = "The number is in the Fibonacci sequence!" ->
             n \in {Fib(k) : k \in 0..12}
      [] text = "The number is in the range 1-25." -> n \in 1..25
      [] text = "The number is in the range 26-50." -> n \in 26..50
      [] text = "The number is in the range 51-75." -> n \in 51..75
      [] text = "The number is in the range 76-100." -> n \in 76..100
      [] text = "The sum of its digits is 5 or less." -> DigitSumOf(n) <= 5
      [] text = "The sum of its digits is between 6-10." ->
             DigitSumOf(n) \in 6..10
      [] text = "The sum of its digits is 11 or more." -> DigitSumOf(n) >= 11
      [] text = "The number is the answer to life, the universe, and everything!" ->
             n = 42
      [] text = "The number is... nice." -> n = 69
      [] text = "The number is a century!" -> n = 100
      [] text = "The number is the first natural number!" -> n = 1
      [] OTHER -> FALSE

\* the last step was a wrong guess that was not the last attempt
WrongGuessShown == lastCall.op = "handleGuess" /\ lastCall.result = "wrong"

\* the game goes on and the first sentence tells the side of the guess
HintSide ==
    LET shown == lastCall.shown
        guess == lastCall.guess
    IN  /\ gameStarted /\ ~gameEnded /\ attemptsLeft >= 1
        /\ guess # secretNumber
        /\ shown.hint.than = guess
        /\ shown.hint.first = "Too low! The number is higher than"
              <=> guess < secretNumber
        /\ shown.hint.first = "Too high! The number is lower than"
              <=> guess > secretNumber
        /\ shown.type = "too-low" <=> guess < secretNumber
        /\ shown.type = "too-high" <=> guess > secretNumber

\* the second sentence is drawn from the non-empty list of the secret
HintDrawn ==
    LET properties == getNumberProperties(secretNumber)
    IN  /\ properties # <<>>
        /\ \E i \in DOMAIN properties : lastCall.shown.hint.property = properties[i]

\* C33: a wrong guess that is not the last attempt keeps the game in progress
\* and shows a hint saying too low iff guess < secret and too high iff
\* guess > secret, plus one property drawn from a non-empty list every element
\* of which is true of the secret, for every secret in 1..100
C33_Original ==
    WrongGuessShown =>
        /\ HintSide
        /\ HintDrawn
        /\ \A i \in DOMAIN getNumberProperties(secretNumber) :
              TrueOf(getNumberProperties(secretNumber)[i], secretNumber)

\* the same with the one sentence left out that is false of its number: 1 is
\* listed as composite
HintsTrueButOne ==
    WrongGuessShown =>
        /\ HintSide
        /\ HintDrawn
        /\ \A i \in DOMAIN getNumberProperties(secretNumber) :
              \/ TrueOf(getNumberProperties(secretNumber)[i], secretNumber)
              \/ /\ secretNumber = 1
                 /\ getNumberProperties(secretNumber)[i] =
                       "The number is composite (not prime)."

\* the false sentence is shown to the player
FalseHintShown ==
    /\ WrongGuessShown
    /\ ~TrueOf(lastCall.shown.hint.property, secretNumber)

\* every secret is played and every sentence of its list can be drawn
HintRandomsCover ==
    /\ AllSecrets = 1..100
    /\ \A n \in AllSecrets :
          {((rnd * Len(getNumberProperties(n))) \div RandomDen) + 1 : rnd \in HintRandoms}
             = DOMAIN getNumberProperties(n)

----------------------------------------------------------------------------
(* Memory match: counters and flags *)

\* the positions of the grid whose card is flagged matched
MatchedCards == {k \in DOMAIN cards : cards[k].matched}

\* the flagged cards go in pairs of one symbol
MatchedInPairs ==
    \A k \in MatchedCards :
        \E j \in MatchedCards : j # k /\ cards[j].symbol = cards[k].symbol

CountersAgree ==
    /\ 2 * matchedPairs = Cardinality(MatchedCards)
    /\ matchedPairs >= 0 /\ matchedPairs <= TOTAL_PAIRS
    /\ matchedPairs <= moveCount

CompletedOnlyWhenAllMatched ==
    gameEnded => Cardinality(MatchedCards) = 2 * TOTAL_PAIRS

\* C34: in memory match matchedPairs is half the number of cards flagged
\* matched, 0 <= matchedPairs <= 4, matchedPairs <= moveCount, the two cards
\* of every matched pair carry the same symbol, and the game is completed only
\* with all 8 cards matched
C34_Original ==
    /\ CountersAgree
    /\ MatchedInPairs
    /\ CompletedOnlyWhenAllMatched

\* the same while a game is being played or has ended
CountersAgreeInGame ==
    gameStarted => CountersAgree /\ MatchedInPairs /\ CompletedOnlyWhenAllMatched

\* a game is completed
MMGameCompleted == gameEnded /\ matchedPairs = TOTAL_PAIRS /\ nCompleted >= 1

----------------------------------------------------------------------------
(* Rock paper scissors: one round at a time *)

\* a click on a choice button is accepted in this step
ChoiceAccepted == ChoiceStep /\ lastCall'.result = "accepted"

\* a round is in flight: one of its two callbacks is still to run
RoundInFlight == timers # <<>>

\* the computer's move is made in this step
PlayRoundStep == lastCall'.op = "playRound" /\ ~Tick

PointsTotal == playerScore + computerScore

\* C35: rock paper scissors has at most one round in flight: between a choice
\* and the end of its winner check no second choice is accepted, each accepted
\* choice changes the scores by at most one point in total, and the two
\* delayed callbacks of a round each run exactly once
C35_Original ==
    /\ [][ChoiceAccepted => ~RoundInFlight]_vars
    /\ [][PlayRoundStep => /\ PointsTotal' - PointsTotal \in {0, 1}
                           /\ Len(timers) = 1 /\ Len(timers') = 1
                           /\ timers'[1].kind = "winnerCheck"]_vars
    /\ [](Len(timers) <= 1)
    /\ [](PointsTotal <= nChoices)

\* the same for the choices made after the game was started
OneRoundPerStartedGame ==
    [][(ChoiceAccepted /\ RoundInFlight) =>
          \A i \in DOMAIN timers : timers[i].game # ops]_vars

\* a choice is accepted while the round of a click made before the game was
\* started is still in flight
SecondRoundInFlight ==
    /\ lastCall.op = "choice" /\ lastCall.result = "accepted"
    /\ Len(timers) = 2

\* the page opened with a stored user: the game is started at load
SpecRPSStoredUser == InitRPS /\ currentUser # Null /\ [][NextRPS]_vars

----------------------------------------------------------------------------
(* Rock paper scissors: every choice is resolved *)

\* the callbacks still to run, of one kind and of both
PendingOf(kind) == Cardinality({i \in DOMAIN timers : timers[i].kind = kind})

\* callbacks of a kind run in the order they were set, so the k-th accepted
\* choice has had its outcome applied once at most nChoices - k computer moves
\* are pending, and its winner check has run once at most nChoices - k
\* callbacks are pending at all
OutcomeApplied(k) == PendingOf("computerMove") <= nChoices - k

WinnerChecked(k) == Len(timers) <= nChoices - k

\* the game has ended or the choice buttons are enabled
ChoiceOpenOrEnded == gameEnded \/ ~choicesDisabled

KthChoiceAccepted(k) ==
    lastCall.op = "choice" /\ lastCall.result = "accepted" /\ nChoices = k

\* C36: under fair timer firing every accepted choice is eventually resolved:
\* its outcome is applied and then either the game has ended or choices are
\* accepted again; the game is never left in progress with choices blocked for
\* good
C36_ChoiceResolved ==
    /\ \A k \in 1..MaxFairChoices :
          KthChoiceAccepted(k) ~>
              (OutcomeApplied(k) /\ <>(WinnerChecked(k) /\ ChoiceOpenOrEnded))
    /\ []<>ChoiceOpenOrEnded

\* a round has been played to its winner check and the next choice is awaited
C36_Witness ==
    /\ lastCall.op = "checkGameWinner" /\ lastCall.result = "next"
    /\ nChoices >= 1
    /\ timers = <<>>
    /\ ~choicesDisabled /\ ~gameEnded

----------------------------------------------------------------------------
(* Game pages: games recorded and games counted *)

\* a finished game records its score in this step
RecordStep == nSaves' = nSaves + 1 /\ ~Tick

\* the leaderboard the step wrote to gained an entry of the given player
RecordedFor(player) ==
    \E g \in GameNames :
        /\ gameScores'[g] # gameScores[g]
        /\ \E k \in DOMAIN gameScores'[g] :
              /\ gameScores'[g][k].player = player
              /\ Occurrences(gameScores'[g], gameScores'[g][k])
                    > Occurrences(gameScores[g], gameScores'[g][k])

\* C37: while a user is set, every completed game that records a score also
\* increments totalGamesPlayed exactly once; with no user set the entries are
\* recorded as Anonymous and the profile stays none
C37_Original ==
    [][RecordStep =>
          IF currentUser # Null
          THEN /\ currentUser' # Null
               /\ currentUser'.totalGamesPlayed = currentUser.totalGamesPlayed + 1
          ELSE currentUser' = Null /\ RecordedFor("Anonymous")]_vars

\* the half of C37 about games played with no user set
AnonymousGamesRecorded ==
    [][(RecordStep /\ currentUser = Null) =>
          (currentUser' = Null /\ lsUser' = lsUser /\ RecordedFor("Anonymous"))]_vars

\* a game was recorded with no user set
AnonymousGameReached ==
    /\ currentUser = Null
    /\ nSaves >= 1
    /\ \E g \in GameNames : gameScores[g] # <<>>

----------------------------------------------------------------------------
(* The utility: saving into a full leaderboard *)

\* saveGameScore runs in this step on a leaderboard that holds TopN entries
SaveIntoFullStep ==
    /\ SaveScoreStep
    /\ Len(gameScores[lastCall'.gameName]) = TopN

\* list with e put after its first n elements and the last one dropped
PlacedAfter(list, n, e) ==
    SubSeq(list, 1, n) \o <<e>> \o SubSeq(list, n + 1, Len(list) - 1)

\* C38: when the leaderboard already holds 10 entries, saveScore keeps the new
\* entry exactly when its score is strictly greater than the lowest stored
\* score, evicting the last entry; an entry scoring the same or less is not
\* stored, although it is still returned; entries of equal score keep their
\* insertion order
C38_FullBoard ==
    [][SaveIntoFullStep =>
          LET old == gameScores[lastCall'.gameName]
              new == gameScores'[lastCall'.gameName]
              e == lastCall'.entry
              ahead == Cardinality({k \in DOMAIN old : old[k].score >= e.score})
          IN  /\ old[TopN].score <= old[1].score
              /\ e.score > old[TopN].score => new = PlacedAfter(old, ahead, e)
              /\ e.score <= old[TopN].score => new = old]_vars

\* an entry tying with the lowest of a full leaderboard was returned and not
\* stored, after an earlier save had evicted one of the two lowest entries
C38_Witness ==
    /\ lastCall.op = "saveGameScore"
    /\ LET b == gameScores[lastCall.gameName]
       IN  /\ Len(b) = TopN
           /\ b[TopN].score = lastCall.entry.score
           /\ Occurrences(b, lastCall.entry) = 0
           /\ Cardinality({k \in DOMAIN b : b[k].score = SeedEntry(4).score}) = 1

----------------------------------------------------------------------------
(* The utility: what saveGameScore leaves alone *)

\* C39: saveScore(game, ...) leaves every other game's leaderboard and the
\* user profile unchanged
C39_SaveScoreFrame ==
    [][SaveScoreStep =>
          /\ \A g \in GameNames \ {lastCall'.gameName} :
                gameScores'[g] = gameScores[g]
          /\ DOMAIN gameScores' = DOMAIN gameScores
          /\ currentUser' = currentUser
          /\ lsUser' = lsUser]_vars

\* a score was saved for one game while a user was set and another game's
\* leaderboard held entries
C39_Witness ==
    /\ lastCall.op = "saveGameScore"
    /\ lastCall.gameName # "numberGuessing"
    /\ gameScores[lastCall.gameName] # <<>>
    /\ gameScores["numberGuessing"] # <<>>
    /\ currentUser # Null

----------------------------------------------------------------------------
(* Rock paper scissors: the rounds recorded *)

\* the winner check of this step ends the game
RPSEndStep ==
    /\ ~Tick
    /\ lastCall'.op = "checkGameWinner"
    /\ lastCall'.result \in {"player", "computer"}

\* the winner check of this step goes on to the next round
RPSNextRoundStep ==
    /\ ~Tick
    /\ lastCall'.op = "checkGameWinner"
    /\ lastCall'.result = "next"

\* the entry the step added to the leaderboard counts as many rounds as the
\* game had wins of either side and ties
RoundsAreWinsAndTies ==
    LET old == gameScores["rockPaperScissors"]
        new == gameScores'["rockPaperScissors"]
    IN  \E k \in DOMAIN new :
            /\ Occurrences(new, new[k]) > Occurrences(old, new[k])
            /\ new[k].playerScore = playerScore
            /\ new[k].computerScore = computerScore
            /\ new[k].rounds = playerScore + computerScore + nTies

\* the round number starts at 1 and goes up by one with every winner check
\* that does not end the game, and only then
RoundNumberSteps ==
    /\ StartStep => currentRound' = 1
    /\ RPSNextRoundStep => currentRound' = currentRound + 1
    /\ RPSEndStep => currentRound' = currentRound
    /\ ~(StartStep \/ RPSNextRoundStep) => currentRound' = currentRound

\* C40: when a rock paper scissors game ends, the rounds value recorded equals
\* player wins + computer wins + ties of that game; the round number starts at
\* 1 and increases by exactly 1 after each resolved round that does not end
\* the game
C40_Original ==
    [][/\ RPSEndStep => RoundsAreWinsAndTies
       /\ RoundNumberSteps]_vars

\* the half of C40 about the round number
RoundNumberCounts == [][RoundNumberSteps]_vars

\* a game has ended and been recorded
RPSGameRecorded ==
    /\ lastCall.op = "checkGameWinner"
    /\ lastCall.result \in {"player", "computer"}
    /\ gameScores["rockPaperScissors"] # <<>>
    /\ nTies >= 1
====
